---------------------------- MODULE Spec2Model ----------------------------
(***************************************************************************)
(* A model of the VRP scenario builder (src/vrp_ui.py): the editing        *)
(* session (VRPApp's event handlers), the background solve                 *)
(* (VRPApp.run_vrp_solver, one thread per on_solve_vrp) and the polling    *)
(* consumer (VRPApp.check_solver_results).                                 *)
(*                                                                         *)
(* Coordinates.  A node's x and y are floats that are always a canvas      *)
(* pixel offset divided by scale_factor (10).  They are kept here as the   *)
(* integer number of 1/Unit problem units (Unit = 10), so a stored value v *)
(* stands for the float v / 10.                                            *)
(*                                                                         *)
(* Threads.  Every event handler of the UI thread is one atomic action.    *)
(* The worker thread is cut into steps at the places where it prints or    *)
(* calls the solver (the interpreter switches threads there); between two  *)
(* steps of a worker any UI action and any step of another worker may run. *)
(***************************************************************************)
EXTENDS Integers, Sequences, FiniteSets, TLC

----------------------------------------------------------------------------
(* Bounds of the model. *)

\* the user places a node only while the id counter is below MaxId
MaxId == 2
\* the user starts a solve only while fewer than MaxSolves were started
MaxSolves == 1
\* in the session of two racing solves: at most MaxRacing solves are started
MaxRacing == 2
\* in the session of far-apart customers: nodes are placed while the id
\* counter is below MaxFar
MaxFar == 5

----------------------------------------------------------------------------
(* Program constants. *)

canvas_width == 800
canvas_height == 600
scale_factor == 10
\* VRPApp.__init__: self.num_vehicles = 4
DefaultVehicles == 4
\* on_canvas_click / on_canvas_right_click: node selection radius (pixels)
SelectRadius == 10
\* prepare_solver_data: distances are scaled by 100 and truncated
DistanceScale == 100
\* run_vrp_solver: the Distance dimension's per-vehicle capacity
DistanceCap == 30000
\* run_vrp_solver: the Time dimension's slack and capacity
TimeSlack == 30
TimeCap == 30000
\* fixed-point denominator of the stored coordinates (see the header): one
\* canvas pixel is 1 / scale_factor problem units
Unit == scale_factor

\* Python's None, and the empty time window slot
None == <<>>

----------------------------------------------------------------------------
(* Sequence helpers. *)

Range(s) == {s[i] : i \in DOMAIN s}

Last(s) == s[Len(s)]

\* list.remove(x) at a known position / del s[i]
RemoveAt(s, i) == SubSeq(s, 1, i - 1) \o SubSeq(s, i + 1, Len(s))

RECURSIVE SumSeq(_)
SumSeq(s) == IF s = <<>> THEN 0 ELSE Head(s) + SumSeq(Tail(s))

RECURSIVE MaxSeq(_)
\* max over a sequence of naturals, 0 for the empty one (max_route_distance = 0)
MaxSeq(s) == IF s = <<>> THEN 0
             ELSE LET m == MaxSeq(Tail(s)) IN IF Head(s) > m THEN Head(s) ELSE m

RECURSIVE ISqrtBetween(_, _, _)
\* the largest r in lo..hi with r * r <= n (lo * lo <= n < (hi + 1) * (hi + 1))
ISqrtBetween(n, lo, hi) ==
    IF lo = hi THEN lo
    ELSE LET mid == (lo + hi + 1) \div 2
         IN  IF mid * mid <= n THEN ISqrtBetween(n, mid, hi)
             ELSE ISqrtBetween(n, lo, mid - 1)

\* floor(sqrt(n)) for 0 <= n < 2^30
ISqrt(n) == ISqrtBetween(n, 0, 32767)

----------------------------------------------------------------------------
(* Coordinate mapper. *)

canvas_to_vrp_coords(canvas_x, canvas_y) ==
    << ((canvas_x - canvas_width \div 2) * Unit) \div scale_factor,
       ((canvas_height \div 2 - canvas_y) * Unit) \div scale_factor >>

vrp_to_canvas_coords(vrp_x, vrp_y) ==
    << (vrp_x * scale_factor) \div Unit + canvas_width \div 2,
       canvas_height \div 2 - (vrp_y * scale_factor) \div Unit >>

(***************************************************************************)
(* The float arithmetic of the coordinate mapper.  The fixed-point         *)
(* coordinates above are exact for the points a click produces.  The       *)
(* mapper itself computes in Python floats (`/` is true division, and a    *)
(* coordinate read from a preset file is any float): binary64 values,      *)
(* every operation rounding its exact result to 53 significant bits, ties  *)
(* to even.  Here a natural number of any size is the sequence of its      *)
(* bits, least significant first, without zeros above the top bit; a float *)
(* is sign * bits * 2^exp with bits odd, so equal values are equal         *)
(* records.  The values of the mapper are far from the exponent limits of  *)
(* binary64, which therefore are not modelled.                             *)
(***************************************************************************)

\* significant bits of a binary64
Precision == 53
\* long division takes this many bits of the dividend at a time
ChunkBits == 15
\* bits of a natural number of the model checker
IntBits == 31

\* without the zeros above the top bit
Trim(b) ==
    LET ones == {i \in 1..Len(b) : b[i] = 1}
    IN  IF ones = {} THEN <<>>
        ELSE SubSeq(b, 1, CHOOSE i \in ones : \A j \in ones : j <= i)

\* the low width bits of a natural number of the machine
FixedBits(n, width) == [i \in 1..width |-> (n \div 2^(i - 1)) % 2]

Bits(n) == Trim(FixedBits(n, IntBits))

Bit(b, i) == IF i \in 1..Len(b) THEN b[i] ELSE 0

Longest(a, b) == IF Len(a) < Len(b) THEN Len(b) ELSE Len(a)

\* the carry into bit i of a + b: some lower bit generates it and every bit
\* between passes it on
Carry(a, b, i) ==
    \E j \in 1..(i - 1) :
        /\ Bit(a, j) + Bit(b, j) = 2
        /\ \A k \in (j + 1)..(i - 1) : Bit(a, k) + Bit(b, k) >= 1

BigAdd(a, b) ==
    Trim([i \in 1..(Longest(a, b) + 1) |->
            (Bit(a, i) + Bit(b, i) + IF Carry(a, b, i) THEN 1 ELSE 0) % 2])

\* the borrow from bit i of a - b
Borrow(a, b, i) ==
    \E j \in 1..(i - 1) :
        /\ Bit(a, j) < Bit(b, j)
        /\ \A k \in (j + 1)..(i - 1) : Bit(a, k) <= Bit(b, k)

\* a - b for a >= b
BigSub(a, b) ==
    Trim([i \in 1..Len(a) |->
            (Bit(a, i) - Bit(b, i) - IF Borrow(a, b, i) THEN 1 ELSE 0) % 2])

BigLess(a, b) ==
    \E i \in 1..Longest(a, b) :
        /\ Bit(a, i) < Bit(b, i)
        /\ \A j \in (i + 1)..Longest(a, b) : Bit(a, j) = Bit(b, j)

ShiftLeft(b, k) ==
    IF b = <<>> THEN <<>>
    ELSE [i \in 1..(Len(b) + k) |-> IF i <= k THEN 0 ELSE b[i - k]]

RECURSIVE BigMul(_, _)
BigMul(a, b) ==
    IF b = <<>> THEN <<>>
    ELSE BigAdd(IF b[1] = 1 THEN a ELSE <<>>, ShiftLeft(BigMul(a, Tail(b)), 1))

\* the number a short sequence of bits stands for
RECURSIVE Value(_)
Value(b) == IF b = <<>> THEN 0 ELSE b[1] + 2 * Value(Tail(b))

\* the quotient and the remainder of b by a positive d < 2^ChunkBits: long
\* division, ChunkBits bits at a time from the top
RECURSIVE BigDivFrom(_, _, _, _)
BigDivFrom(b, d, c, rem) ==
    IF c = 0
    THEN [quot |-> <<>>, rem |-> rem]
    ELSE LET chunk == [i \in 1..ChunkBits |-> Bit(b, (c - 1) * ChunkBits + i)]
             r == rem * 2^ChunkBits + Value(chunk)
             rest == BigDivFrom(b, d, c - 1, r % d)
         IN  [quot |-> rest.quot \o FixedBits(r \div d, ChunkBits),
              rem |-> rest.rem]

BigDiv(b, d) ==
    LET r == BigDivFrom(b, d, (Len(b) + ChunkBits - 1) \div ChunkBits, 0)
    IN  [quot |-> Trim(r.quot), rem |-> r.rem]

Zero == [sign |-> 1, bits |-> <<>>, exp |-> 0]

\* the float sign * bits * 2^exp, bits of at most Precision bits
Normalise(sign, bits, exp) ==
    IF bits = <<>> THEN Zero
    ELSE LET low == CHOOSE i \in 1..Len(bits) :
                        bits[i] = 1 /\ \A j \in 1..(i - 1) : bits[j] = 0
         IN  [sign |-> sign,
              bits |-> SubSeq(bits, low, Len(bits)),
              exp  |-> exp + low - 1]

\* the float nearest to sign * (bits + a fraction) * 2^exp, ties to even;
\* sticky says that the fraction is not zero
Round(sign, bits, exp, sticky) ==
    IF Len(bits) <= Precision
    THEN Normalise(sign, bits, exp)
    ELSE LET k == Len(bits) - Precision
             kept == SubSeq(bits, k + 1, Len(bits))
             rest == sticky \/ \E i \in 1..(k - 1) : bits[i] = 1
             up == bits[k] = 1 /\ (rest \/ kept[1] = 1)
         IN  Normalise(sign, IF up THEN BigAdd(kept, <<1>>) ELSE kept, exp + k)

\* int -> float
float(n) == Normalise(IF n < 0 THEN -1 ELSE 1, Bits(IF n < 0 THEN -n ELSE n), 0)

FloatNeg(a) == IF a = Zero THEN Zero ELSE [a EXCEPT !.sign = -a.sign]

FloatAdd(a, b) ==
    LET e == IF a.exp < b.exp THEN a.exp ELSE b.exp
        A == ShiftLeft(a.bits, a.exp - e)
        B == ShiftLeft(b.bits, b.exp - e)
    IN  IF a.sign = b.sign THEN Round(a.sign, BigAdd(A, B), e, FALSE)
        ELSE IF A = B THEN Zero
        ELSE IF BigLess(B, A) THEN Round(a.sign, BigSub(A, B), e, FALSE)
        ELSE Round(b.sign, BigSub(B, A), e, FALSE)

FloatSub(a, b) == FloatAdd(a, FloatNeg(b))

\* float * int
FloatMul(a, n) ==
    Round(IF n < 0 THEN -a.sign ELSE a.sign,
          BigMul(a.bits, Bits(IF n < 0 THEN -n ELSE n)), a.exp, FALSE)

\* float / int, for a positive int: enough bits of the quotient are computed
\* for the rounding to see the bit below the last kept one
FloatDiv(a, n) ==
    LET guard == Precision + 2 + Len(Bits(n))
        r == BigDiv(ShiftLeft(a.bits, guard), n)
    IN  Round(a.sign, r.quot, a.exp - guard, r.rem # 0)

\* the float a decimal text such as "-12.34" stands for: digits / scale,
\* scale a power of ten
Decimal(digits, scale) == FloatDiv(float(digits), scale)

\* a < b
FloatLess(a, b) == FloatSub(a, b).sign = -1

\* the number the k-th group of ChunkBits bits of b stands for, k = 1 lowest
Chunk(b, k) == Value([i \in 1..ChunkBits |-> Bit(b, (k - 1) * ChunkBits + i)])

\* a * c for 0 <= c < 2^ChunkBits, a group of bits of a at a time from the
\* bottom
RECURSIVE BigMulSmallFrom(_, _, _, _)
BigMulSmallFrom(a, c, k, carry) ==
    IF (k - 1) * ChunkBits >= Len(a)
    THEN FixedBits(carry, ChunkBits + 1)
    ELSE LET p == Chunk(a, k) * c + carry
         IN  FixedBits(p % 2^ChunkBits, ChunkBits)
                 \o BigMulSmallFrom(a, c, k + 1, p \div 2^ChunkBits)

BigMulSmall(a, c) == Trim(BigMulSmallFrom(a, c, 1, 0))

\* a * b, a group of bits of b at a time
RECURSIVE BigTimesFrom(_, _, _)
BigTimesFrom(a, b, k) ==
    IF (k - 1) * ChunkBits >= Len(b) THEN <<>>
    ELSE BigAdd(BigMulSmall(a, Chunk(b, k)),
                ShiftLeft(BigTimesFrom(a, b, k + 1), ChunkBits))

BigTimes(a, b) == BigTimesFrom(a, b, 1)

\* the square root is taken this many bits at a time
RootBits == 5

\* the integer square root of the top t groups of 2 * RootBits bits of b,
\* given root and rem of the groups above group t: the next RootBits bits of
\* the root are the largest c with (2 * root * 2^RootBits + c) * c <= rem
RECURSIVE BigSqrtFrom(_, _, _, _)
BigSqrtFrom(b, t, root, rem) ==
    IF t = 0 THEN [root |-> root, rem |-> rem]
    ELSE LET group == [i \in 1..(2 * RootBits) |-> Bit(b, (t - 1) * 2 * RootBits + i)]
             cur == Trim(group \o rem)
             sub(c) == BigMulSmall(FixedBits(c, RootBits + 1) \o root, c)
             fits == {c \in 0..(2^RootBits - 1) : ~BigLess(cur, sub(c))}
             c == CHOOSE d \in fits : \A f \in fits : f <= d
             root1 == Trim(FixedBits(c, RootBits) \o root)
             rem1 == BigSub(cur, sub(c))
         IN  \* both are computed before the next step
             IF Len(root1) + Len(rem1) >= 0
             THEN BigSqrtFrom(b, t - 1, root1, rem1)
             ELSE [root |-> root1, rem |-> rem1]

\* floor(sqrt(b)) and b - floor(sqrt(b))^2
BigSqrt(b) ==
    BigSqrtFrom(b, (Len(b) + 2 * RootBits - 1) \div (2 * RootBits), <<>>, <<>>)

\* float * float
FloatTimes(a, b) ==
    Round(a.sign * b.sign, BigTimes(a.bits, b.bits), a.exp + b.exp, FALSE)

\* math.sqrt of a float that is not negative: the root of the significand,
\* shifted to an even exponent and far enough for the rounding to see the bit
\* below the last kept one
FloatSqrt(a) ==
    IF a = Zero THEN Zero
    ELSE LET need == 2 * (Precision + 2) - Len(a.bits)
             least == IF need < 0 THEN 0 ELSE need
             k == IF (a.exp - least) % 2 = 0 THEN least ELSE least + 1
             r == BigSqrt(ShiftLeft(a.bits, k))
         IN  Round(1, r.root, (a.exp - k) \div 2, r.rem # <<>>)

\* the whole part of bits * 2^exp
Whole(bits, exp) ==
    IF exp >= 0 THEN ShiftLeft(bits, exp)
    ELSE IF Len(bits) <= -exp THEN <<>>
    ELSE SubSeq(bits, 1 - exp, Len(bits))

\* int(a): the float cut to its whole part, towards zero
int_of_float(a) == a.sign * Value(Whole(a.bits, a.exp))

\* canvas_to_vrp_coords and vrp_to_canvas_coords as the interpreter computes
\* them, on floats
canvas_to_vrp_coords_binary64(canvas_x, canvas_y) ==
    << FloatDiv(FloatSub(canvas_x, float(canvas_width \div 2)), scale_factor),
       FloatDiv(FloatSub(float(canvas_height \div 2), canvas_y), scale_factor) >>

vrp_to_canvas_coords_upright(vrp_x, vrp_y) ==
    << FloatAdd(FloatMul(vrp_x, scale_factor), float(canvas_width \div 2)),
       FloatAdd(float(canvas_height \div 2), FloatMul(vrp_y, scale_factor)) >>

vrp_to_canvas_coords_binary64(vrp_x, vrp_y) ==
    << FloatAdd(FloatMul(vrp_x, scale_factor), float(canvas_width \div 2)),
       FloatSub(float(canvas_height \div 2), FloatMul(vrp_y, scale_factor)) >>

----------------------------------------------------------------------------
(* Nodes. *)

\* VRPNode(x, y, is_depot) with the id the constructor assigns
VRPNode(id, x, y, is_depot) ==
    [id |-> id, x |-> x, y |-> y, is_depot |-> is_depot,
     time_window |-> None, required_skills |-> {}]

\* the canvas points the user clicks: the centre (where the depot sits) and
\* two customers' places, (5, 0) and (-5, 0) in problem units
Centre == <<canvas_width \div 2, canvas_height \div 2>>
East == <<450, 300>>
West == <<350, 300>>
Points == {East, West}
ClickPoints == Points \cup {Centre}
\* five customers' places far from each other: the canvas corners and a point
\* east of the centre, in the order the user places them
FarPoints == << <<0, 0>>, <<799, 0>>, <<799, 599>>, <<0, 599>>, <<600, 300>> >>
\* the values the vehicle slider is moved to
VehicleCounts == {1, 2}

\* the first node of the list within the selection radius of the click, 0 if none
ClickedNode(ns, canvas_x, canvas_y) ==
    LET hit(i) == LET c == vrp_to_canvas_coords(ns[i].x, ns[i].y)
                  IN  (c[1] - canvas_x) * (c[1] - canvas_x)
                      + (c[2] - canvas_y) * (c[2] - canvas_y)
                      <= SelectRadius * SelectRadius
        hits == {i \in DOMAIN ns : hit(i)}
    IN  IF hits = {} THEN 0 ELSE CHOOSE i \in hits : \A j \in hits : i <= j


----------------------------------------------------------------------------
(* Text inputs: what the user types into the entry fields. *)

\* the texts typed into the two time-window entries
TimeTexts == {"", "  ", "x", "-1", "0", "50", "100"}
\* the texts typed into the new-skill entry
SkillTexts == {"", " ", "a", " a", "b"}

\* str.strip()
strip(text) ==
    CASE text = "  " -> ""
      [] text = " "  -> ""
      [] text = " a" -> "a"
      [] OTHER       -> text

\* whether int(text) returns (otherwise it raises ValueError)
IsIntText(text) == text \in {"-1", "0", "50", "100"}

\* int(text)
int(text) ==
    CASE text = "-1"  -> -1
      [] text = "0"   -> 0
      [] text = "50"  -> 50
      [] text = "100" -> 100

----------------------------------------------------------------------------
(* State. *)

VARIABLES
    nodes,            \* self.nodes: the list of VRPNode, in placement order
    selected_node,    \* self.selected_node: a position of nodes, 0 for None
    id_counter,       \* VRPNode.id_counter
    num_vehicles,     \* self.num_vehicles
    available_skills, \* self.available_skills: the catalog, a list
    vehicle_skills,   \* self.vehicle_skills: vehicle index -> list of skills
    vehicle_boxes,    \* the vehicle skill checkboxes: <<vehicle, skill, checked>>
    node_boxes,       \* the selected node's skill checkboxes: <<skill, checked>>
    routes,           \* self.routes: the displayed solution, a list of id lists
    queue,            \* self.queue: messages from the workers to the UI
    polls,            \* the number of armed after(100, check_solver_results)
    workers,          \* the running threads on_solve_vrp started, in start order
    solves,           \* how many threads on_solve_vrp has started so far
    disk,             \* the preset file on disk, None before the first save
    history           \* history variable: per thread number, what the
                      \* scenario was when it was started and when it built

nodeVars == <<nodes, selected_node, id_counter>>
fleetVars == <<num_vehicles, available_skills, vehicle_skills>>
widgetVars == <<vehicle_boxes, node_boxes>>
scenarioVars == <<nodeVars, fleetVars, widgetVars>>
solveVars == <<queue, polls, workers, solves>>
vars == <<nodes, selected_node, id_counter, num_vehicles, available_skills,
          vehicle_skills, vehicle_boxes, node_boxes, routes, queue, polls,
          workers, solves, disk, history>>

\* dict.get(v, [])
SkillsOf(vs, v) == IF v \in DOMAIN vs THEN vs[v] ELSE <<>>

\* an update that keeps only the entries below the count
update_vehicle_skills_ui_pruned(vs, count) ==
    [v \in 0 .. (count - 1) |-> IF v \in DOMAIN vs THEN vs[v] ELSE <<>>]

\* update_vehicle_skills_ui: every index below the count gets an entry
update_vehicle_skills_ui(vs, count) ==
    [v \in DOMAIN vs \cup 0 .. (count - 1) |->
        IF v \in DOMAIN vs THEN vs[v] ELSE <<>>]

\* VRPApp.__init__: the depot at the canvas centre, four vehicles, no skills
Init ==
    /\ nodes = << LET c == canvas_to_vrp_coords(Centre[1], Centre[2])
                  IN  VRPNode(0, c[1], c[2], TRUE) >>
    /\ selected_node = 0
    /\ id_counter = 0
    /\ num_vehicles = DefaultVehicles
    /\ available_skills = <<>>
    /\ vehicle_skills = update_vehicle_skills_ui(<<>>, DefaultVehicles)
    /\ vehicle_boxes = {}
    /\ node_boxes = {}
    /\ routes = <<>>
    /\ queue = <<>>
    /\ polls = 0
    /\ workers = <<>>
    /\ solves = 0
    /\ disk = None
    /\ history = <<>>

----------------------------------------------------------------------------
(* The skill widgets. *)

\* update_vehicle_skills_ui: the checkboxes it builds, none without skills
VehicleBoxes(vs, count, skills) ==
    {<<v, skills[j], skills[j] \in Range(SkillsOf(vs, v))>> :
        v \in 0 .. (count - 1), j \in DOMAIN skills}

\* update_node_skills_ui: the checkboxes it builds for the selected node
NodeBoxes(ns, sel, skills) ==
    IF sel = 0 THEN {}
    ELSE {<<skills[j], skills[j] \in ns[sel].required_skills>> : j \in DOMAIN skills}

\* update_skills_ui returns before it refreshes the vehicle and node widgets
\* when the catalog is empty: they keep what they showed
SkillsUiVehicleSkills(vs, count, skills) ==
    IF skills = <<>> THEN vs ELSE update_vehicle_skills_ui(vs, count)

SkillsUiVehicleBoxes(boxes, vs, count, skills) ==
    IF skills = <<>> THEN boxes ELSE VehicleBoxes(vs, count, skills)

SkillsUiNodeBoxes(boxes, ns, sel, skills) ==
    IF skills = <<>> \/ sel = 0 THEN boxes ELSE NodeBoxes(ns, sel, skills)

----------------------------------------------------------------------------
(* Editing the nodes. *)

\* left click: select the node under the pointer, or place a new customer
\* (while the id counter is below max_id, the bound of the model)
on_canvas_click(p, max_id) ==
    LET clicked == ClickedNode(nodes, p[1], p[2])
        c == canvas_to_vrp_coords(p[1], p[2])
    IN  /\ IF clicked # 0
           THEN /\ selected_node' = clicked
                /\ UNCHANGED <<nodes, id_counter>>
           ELSE /\ id_counter < max_id
                /\ nodes' = Append(nodes, VRPNode(id_counter, c[1], c[2], FALSE))
                /\ id_counter' = id_counter + 1
                /\ selected_node' = Len(nodes) + 1
        \* select_node(node) rebuilds the node's skill checkboxes
        /\ node_boxes' = NodeBoxes(nodes', selected_node', available_skills)
        /\ UNCHANGED <<fleetVars, vehicle_boxes, routes, solveVars, disk>>

\* right click: remove the customer under the pointer; the depot stays
on_canvas_right_click(p) ==
    LET clicked == ClickedNode(nodes, p[1], p[2])
    IN  /\ IF clicked = 0 \/ nodes[clicked].is_depot
           THEN UNCHANGED <<nodes, selected_node>>
           ELSE /\ nodes' = RemoveAt(nodes, clicked)
                /\ selected_node' =
                     IF selected_node # 0
                        /\ nodes[selected_node].id = nodes[clicked].id
                     THEN 0   \* select_node(None) leaves the checkboxes
                     ELSE IF selected_node > clicked THEN selected_node - 1
                     ELSE selected_node
        /\ UNCHANGED <<id_counter, fleetVars, widgetVars, routes, solveVars, disk>>

\* a Clear All that starts the ids again
on_clear_all_renumbering(confirmed) ==
    /\ IF confirmed
       THEN /\ nodes' = SelectSeq(nodes, LAMBDA n : n.is_depot)
            /\ routes' = <<>>
            /\ selected_node' = 0
            /\ id_counter' = 0
       ELSE UNCHANGED <<nodes, routes, selected_node, id_counter>>
    /\ UNCHANGED <<fleetVars, widgetVars, solveVars, disk>>

\* Clear All Nodes, after the confirmation dialog
on_clear_all(confirmed) ==
    /\ IF confirmed
       THEN /\ nodes' = SelectSeq(nodes, LAMBDA n : n.is_depot)
            /\ routes' = <<>>
            /\ selected_node' = 0
       ELSE UNCHANGED <<nodes, routes, selected_node>>
    /\ UNCHANGED <<id_counter, fleetVars, widgetVars, solveVars, disk>>

\* a Clear Routes that deselects too
on_clear_routes_deselecting ==
    /\ routes' = <<>>
    /\ selected_node' = 0
    /\ UNCHANGED <<nodes, id_counter, fleetVars, widgetVars, solveVars, disk>>

\* Clear Routes
on_clear_routes ==
    /\ routes' = <<>>
    /\ UNCHANGED <<scenarioVars, solveVars, disk>>

----------------------------------------------------------------------------
(* Editing the constraints and the fleet. *)

\* the vehicle slider moved to value
on_vehicle_count_change(value) ==
    /\ num_vehicles' = value
    /\ vehicle_skills' = update_vehicle_skills_ui(vehicle_skills, value)
    /\ vehicle_boxes' = VehicleBoxes(vehicle_skills', value, available_skills)
    /\ UNCHANGED <<nodeVars, available_skills, node_boxes, routes, solveVars, disk>>

\* checks that let a negative start through
ValidTimeWindow_signed(start_text, end_text) ==
    LET s == strip(start_text)
        e == strip(end_text)
    IN  IF s = "" \/ e = "" THEN None
        ELSE IF ~IsIntText(s) \/ ~IsIntText(e) THEN None
        ELSE IF int(s) >= int(e) THEN None
        ELSE <<int(s), int(e)>>

\* on_set_time_window's checks: the window it stores, None when it refuses
ValidTimeWindow(start_text, end_text) ==
    LET s == strip(start_text)
        e == strip(end_text)
    IN  IF s = "" \/ e = "" THEN None
        ELSE IF ~IsIntText(s) \/ ~IsIntText(e) THEN None
        ELSE IF int(s) >= int(e) THEN None
        ELSE IF int(s) < 0 THEN None
        ELSE <<int(s), int(e)>>

\* Set Time Window with the two entries' texts
on_set_time_window(start_text, end_text) ==
    LET tw == ValidTimeWindow(start_text, end_text)
    IN  /\ IF selected_node = 0 \/ tw = None
           THEN UNCHANGED nodes
           ELSE nodes' = [nodes EXCEPT ![selected_node].time_window = tw]
        /\ UNCHANGED <<selected_node, id_counter, fleetVars, widgetVars, routes,
                       solveVars, disk>>

\* Clear Time Window
on_clear_time_window ==
    /\ IF selected_node = 0
       THEN UNCHANGED nodes
       ELSE nodes' = [nodes EXCEPT ![selected_node].time_window = None]
    /\ UNCHANGED <<selected_node, id_counter, fleetVars, widgetVars, routes,
                   solveVars, disk>>

\* an Add Skill that takes the text as typed
on_add_skill_raw(text) ==
    LET new_skill == text
    IN  /\ IF new_skill = "" \/ new_skill \in Range(available_skills)
           THEN UNCHANGED <<available_skills, vehicle_skills, widgetVars>>
           ELSE /\ available_skills' = Append(available_skills, new_skill)
                /\ vehicle_skills' =
                     SkillsUiVehicleSkills(vehicle_skills, num_vehicles,
                                           available_skills')
                /\ vehicle_boxes' =
                     SkillsUiVehicleBoxes(vehicle_boxes, vehicle_skills',
                                          num_vehicles, available_skills')
                /\ node_boxes' =
                     SkillsUiNodeBoxes(node_boxes, nodes, selected_node,
                                       available_skills')
        /\ UNCHANGED <<nodeVars, num_vehicles, routes, solveVars, disk>>

\* Add Skill with the entry's text
on_add_skill(text) ==
    LET new_skill == strip(text)
    IN  /\ IF new_skill = "" \/ new_skill \in Range(available_skills)
           THEN UNCHANGED <<available_skills, vehicle_skills, widgetVars>>
           ELSE /\ available_skills' = Append(available_skills, new_skill)
                /\ vehicle_skills' =
                     SkillsUiVehicleSkills(vehicle_skills, num_vehicles,
                                           available_skills')
                /\ vehicle_boxes' =
                     SkillsUiVehicleBoxes(vehicle_boxes, vehicle_skills',
                                          num_vehicles, available_skills')
                /\ node_boxes' =
                     SkillsUiNodeBoxes(node_boxes, nodes, selected_node,
                                       available_skills')
        /\ UNCHANGED <<nodeVars, num_vehicles, routes, solveVars, disk>>

\* list.remove(skill): the first occurrence goes
RemoveSkill(skills, skill) ==
    IF skill \in Range(skills)
    THEN RemoveAt(skills, CHOOSE i \in DOMAIN skills :
                            /\ skills[i] = skill
                            /\ \A j \in DOMAIN skills : skills[j] = skill => i <= j)
    ELSE skills

\* a delete that cleans only the vehicles below the vehicle count
on_delete_skill_counted(skill, confirmed) ==
    /\ skill \in Range(available_skills)
    /\ IF confirmed
       THEN /\ available_skills' = RemoveSkill(available_skills, skill)
            /\ LET vs == [v \in DOMAIN vehicle_skills |->
                            IF v < num_vehicles
                            THEN RemoveSkill(vehicle_skills[v], skill)
                            ELSE vehicle_skills[v]]
               IN  /\ vehicle_skills' =
                        SkillsUiVehicleSkills(vs, num_vehicles, available_skills')
                   /\ vehicle_boxes' =
                        SkillsUiVehicleBoxes(vehicle_boxes, vehicle_skills',
                                             num_vehicles, available_skills')
            /\ nodes' = [i \in DOMAIN nodes |->
                           [nodes[i] EXCEPT !.required_skills = @ \ {skill}]]
            /\ node_boxes' = SkillsUiNodeBoxes(node_boxes, nodes', selected_node,
                                               available_skills')
       ELSE UNCHANGED <<available_skills, vehicle_skills, widgetVars, nodes>>
    /\ UNCHANGED <<selected_node, id_counter, num_vehicles, routes, solveVars, disk>>

\* the X button of a catalog entry, after the confirmation dialog
on_delete_skill(skill, confirmed) ==
    /\ skill \in Range(available_skills)
    /\ IF confirmed
       THEN /\ available_skills' = RemoveSkill(available_skills, skill)
            /\ LET vs == [v \in DOMAIN vehicle_skills |->
                            RemoveSkill(vehicle_skills[v], skill)]
               IN  /\ vehicle_skills' =
                        SkillsUiVehicleSkills(vs, num_vehicles, available_skills')
                   /\ vehicle_boxes' =
                        SkillsUiVehicleBoxes(vehicle_boxes, vehicle_skills',
                                             num_vehicles, available_skills')
            /\ nodes' = [i \in DOMAIN nodes |->
                           [nodes[i] EXCEPT !.required_skills = @ \ {skill}]]
            /\ node_boxes' = SkillsUiNodeBoxes(node_boxes, nodes', selected_node,
                                               available_skills')
       ELSE UNCHANGED <<available_skills, vehicle_skills, widgetVars, nodes>>
    /\ UNCHANGED <<selected_node, id_counter, num_vehicles, routes, solveVars, disk>>

\* a click on the checkbox of (vehicle_id, skill): the box flips, then the handler runs
on_vehicle_skill_toggle(vehicle_id, skill) ==
    \E box \in vehicle_boxes :
        /\ box[1] = vehicle_id /\ box[2] = skill
        /\ LET var == ~box[3]
               have == SkillsOf(vehicle_skills, vehicle_id)
               entry == IF var
                        THEN IF skill \in Range(have) THEN have
                             ELSE Append(have, skill)
                        ELSE RemoveSkill(have, skill)
           IN  /\ vehicle_boxes' =
                    (vehicle_boxes \ {box}) \cup {<<vehicle_id, skill, var>>}
               /\ vehicle_skills' =
                    IF var \/ vehicle_id \in DOMAIN vehicle_skills
                    THEN [v \in DOMAIN vehicle_skills \cup {vehicle_id} |->
                            IF v = vehicle_id THEN entry ELSE vehicle_skills[v]]
                    ELSE vehicle_skills
        /\ UNCHANGED <<nodeVars, num_vehicles, available_skills, node_boxes,
                       routes, solveVars, disk>>

\* a click on the selected node's checkbox of skill
on_node_skill_toggle(skill) ==
    \E box \in node_boxes :
        /\ box[1] = skill
        /\ LET var == ~box[2]
           IN  /\ node_boxes' = (node_boxes \ {box}) \cup {<<skill, var>>}
               /\ IF selected_node = 0
                  THEN UNCHANGED nodes
                  ELSE nodes' = [nodes EXCEPT ![selected_node].required_skills =
                                    IF var THEN @ \cup {skill} ELSE @ \ {skill}]
        /\ UNCHANGED <<selected_node, id_counter, fleetVars, vehicle_boxes,
                       routes, solveVars, disk>>

----------------------------------------------------------------------------
(* Persistence: the preset file. *)

RECURSIVE list(_)
\* list(a_set): the elements in some order
list(S) == IF S = {} THEN <<>>
           ELSE LET x == CHOOSE x \in S : TRUE IN <<x>> \o list(S \ {x})

\* set(a_list)
set(l) == Range(l)

\* json.dump writes a dict's integer keys as strings; int(k) reads them back
Digits == <<"0", "1", "2", "3", "4", "5", "6", "7", "8", "9">>
str(k) == Digits[k + 1]
int_key(text) == CHOOSE k \in 0 .. 9 : Digits[k + 1] = text

\* VRPNode.to_dict
to_dict(node) ==
    [id |-> node.id, x |-> node.x, y |-> node.y, is_depot |-> node.is_depot,
     time_window |-> node.time_window,
     required_skills |-> list(node.required_skills)]

\* a from_dict that forgets the time window
from_dict_no_window(data) ==
    [VRPNode(data.id, data.x, data.y, data.is_depot)
       EXCEPT !.required_skills = set(data.required_skills)]

\* VRPNode.from_dict, without the id counter (see LoadCounter)
from_dict(data) ==
    [VRPNode(data.id, data.x, data.y, data.is_depot)
       EXCEPT !.time_window = data.time_window,
              !.required_skills = set(data.required_skills)]

\* the object on_save_preset dumps
PresetOf(ns, count, skills, vs) ==
    [nodes |-> [i \in DOMAIN ns |-> to_dict(ns[i])],
     num_vehicles |-> count,
     available_skills |-> skills,
     vehicle_skills |-> {<<str(v), vs[v]>> : v \in DOMAIN vs}]

\* Save Preset; chosen is whether the file dialog returned a path
on_save_preset(chosen) ==
    /\ disk' = IF chosen
               THEN PresetOf(nodes, num_vehicles, available_skills, vehicle_skills)
               ELSE disk
    /\ UNCHANGED <<scenarioVars, routes, solveVars>>

\* what can be wrong with the file that is loaded: not JSON, a key missing,
\* or (bad_window) every key present and the last node's time_window edited
\* to the array [100, 50]
Damages == {"none", "unreadable", "no_nodes", "no_node_id", "no_num_vehicles",
            "no_available_skills", "no_vehicle_skills", "bad_window"}

RECURSIVE LoadCounter(_, _)
\* the id counter after the loop of on_load_preset over node dicts ds, from
\* counter c: the constructor counts every customer, then the loop lifts the
\* counter above the loaded id
LoadCounter(ds, c) ==
    IF ds = <<>> THEN c
    ELSE LET d == Head(ds)
             c1 == IF d.is_depot THEN c ELSE c + 1
             c2 == IF ~d.is_depot /\ d.id + 1 > c1 THEN d.id + 1 ELSE c1
         IN  LoadCounter(Tail(ds), c2)

\* Load Preset of the file on disk with the given damage.  The handler clears
\* the session, then reads key after key; the first missing key raises and the
\* except clause reports it, keeping what was assigned until then.
on_load_preset(damage) ==
    /\ disk # None
    /\ damage \in {"no_node_id", "bad_window"} => disk.nodes # <<>>
    /\ LET data == IF damage = "bad_window"
                   THEN [disk EXCEPT !.nodes[Len(disk.nodes)].time_window =
                                        <<100, 50>>]
                   ELSE disk
           \* the node dicts the loop gets through before it raises
           read == IF damage = "no_node_id"
                   THEN SubSeq(data.nodes, 1, Len(data.nodes) - 1)
                   ELSE data.nodes
           \* the constructor of the node whose id is missing has run
           partial == IF damage = "no_node_id" /\ ~Last(data.nodes).is_depot
                      THEN 1 ELSE 0
           got_nodes == damage \notin {"unreadable", "no_nodes"}
           got_count == got_nodes /\ damage \notin {"no_node_id", "no_num_vehicles"}
           got_skills == got_count /\ damage # "no_available_skills"
           got_all == got_skills /\ damage # "no_vehicle_skills"
           loaded_vs == [v \in {int_key(e[1]) : e \in data.vehicle_skills} |->
                          (CHOOSE e \in data.vehicle_skills : int_key(e[1]) = v)[2]]
       IN  /\ IF damage = "unreadable"
              THEN UNCHANGED <<nodes, selected_node, routes, id_counter>>
              ELSE /\ selected_node' = 0
                   /\ routes' = <<>>
                   /\ nodes' = IF got_nodes
                               THEN [i \in DOMAIN read |-> from_dict(read[i])]
                               ELSE <<>>
                   /\ id_counter' = IF got_nodes
                                    THEN LoadCounter(read, 0) + partial
                                    ELSE 0
           /\ num_vehicles' = IF got_count THEN data.num_vehicles ELSE num_vehicles
           /\ available_skills' =
                IF got_skills THEN data.available_skills ELSE available_skills
           /\ vehicle_skills' =
                IF got_all
                THEN SkillsUiVehicleSkills(loaded_vs, num_vehicles', available_skills')
                ELSE vehicle_skills
           /\ vehicle_boxes' =
                IF got_all
                THEN SkillsUiVehicleBoxes(vehicle_boxes, vehicle_skills',
                                          num_vehicles', available_skills')
                ELSE vehicle_boxes
           /\ UNCHANGED <<node_boxes, solveVars, disk>>

----------------------------------------------------------------------------
(* Problem builder. *)

\* a distance in whole problem units, without the factor 100
Distance_unscaled(a, b) ==
    LET dx == a.x - b.x
        dy == a.y - b.y
    IN  ISqrt(dx * dx + dy * dy) \div Unit

\* int(math.sqrt((xi - xj)**2 + (yi - yj)**2) * 100) for coordinates kept in
\* 1/Unit units: the exact value of floor(100 * sqrt(dx^2 + dy^2) / Unit),
\* 100 / Unit being a whole number.  The interpreter computes the expression in
\* floats (Distance_binary64 below), which gives this value for the points
\* the sessions click and not for every point of the canvas.
Distance(a, b) ==
    LET dx == a.x - b.x
        dy == a.y - b.y
        k == DistanceScale \div Unit
    IN  ISqrt((dx * dx + dy * dy) * k * k)

\* prepare_solver_data: the matrix by node position (1-based here, position
\* p of the list is row p + 1), the vehicle count and the depot index
prepare_solver_data(ns, count) ==
    [distance_matrix |->
        [i \in DOMAIN ns |-> [j \in DOMAIN ns |->
            IF i = j THEN 0 ELSE Distance(ns[i], ns[j])]],
     num_vehicles |-> count,
     depot |-> 0]

\* the same expression as the interpreter computes it for float coordinates:
\* every operation rounds, and int() cuts the product towards zero.  For the
\* points of the sessions above (the centre, East, West, FarPoints) it gives
\* the value of Distance.
Distance_binary64(a, b) ==
    LET dx == FloatSub(a.x, b.x)
        dy == FloatSub(a.y, b.y)
    IN  int_of_float(FloatMul(FloatSqrt(FloatAdd(FloatTimes(dx, dx),
                                                 FloatTimes(dy, dy))),
                              DistanceScale))

\* prepare_solver_data on nodes with float coordinates
prepare_solver_data_binary64(ns, count) ==
    [distance_matrix |->
        [i \in DOMAIN ns |-> [j \in DOMAIN ns |->
            IF i = j THEN 0 ELSE Distance_binary64(ns[i], ns[j])]],
     num_vehicles |-> count,
     depot |-> 0]

\* any(node.time_window for node in self.nodes)
HasTimeWindows(ns) == \E i \in DOMAIN ns : ns[i].time_window # None

\* any(node.required_skills for node in self.nodes)
HasSkills(ns) == \E i \in DOMAIN ns : ns[i].required_skills # {}

\* the vehicles below count that hold some skill in required
valid_vehicles_any(required, vs, count) ==
    {v \in 0 .. (count - 1) : \E skill \in required : skill \in Range(SkillsOf(vs, v))}

\* the vehicles below count that hold every skill in required
valid_vehicles(required, vs, count) ==
    {v \in 0 .. (count - 1) : \A skill \in required : skill \in Range(SkillsOf(vs, v))}

\* the first node (in list order) the skill check of run_vrp_solver refuses, 0 if none
FirstUnservable(ns, vs, count) ==
    LET bad == {i \in DOMAIN ns : /\ ns[i].required_skills # {}
                                  /\ valid_vehicles(ns[i].required_skills, vs, count) = {}}
    IN  IF bad = {} THEN 0 ELSE CHOOSE i \in bad : \A j \in bad : i <= j

\* SetRange calls on the customers only
TimeRanges_customers(ns) ==
    {<<i - 1, ns[i].time_window[1], ns[i].time_window[2]>> :
        i \in {j \in DOMAIN ns : ns[j].time_window # None /\ ~ns[j].is_depot}}

\* the SetRange calls on the Time dimension: <<node index, start, end>>
TimeRanges(ns) ==
    {<<i - 1, ns[i].time_window[1], ns[i].time_window[2]>> :
        i \in {j \in DOMAIN ns : ns[j].time_window # None}}

\* SetValues calls that restrict the depot as well
AllowedVehicles_with_depot(ns, vs, count) ==
    {<<i - 1, valid_vehicles(ns[i].required_skills, vs, count)>> :
        i \in {j \in DOMAIN ns : ns[j].required_skills # {}}}

\* the VehicleVar(...).SetValues calls: <<node index, allowed vehicles>>
AllowedVehicles(ns, vs, count) ==
    {<<i - 1, valid_vehicles(ns[i].required_skills, vs, count)>> :
        i \in {j \in DOMAIN ns : ns[j].required_skills # {} /\ ~ns[j].is_depot}}

\* parameters that turn to savings at twenty nodes already
SearchParameters_at_twenty(node_count, has_time_windows, has_skills) ==
    LET gls == has_time_windows \/ has_skills \/ node_count > 15
    IN  [first_solution_strategy |->
            IF node_count >= 20 THEN "SAVINGS" ELSE "PATH_CHEAPEST_ARC",
         local_search_metaheuristic |->
            IF gls THEN "GUIDED_LOCAL_SEARCH" ELSE "UNSET",
         time_limit |-> IF gls THEN 15 ELSE 10]

\* the first attempt's search parameters
SearchParameters(node_count, has_time_windows, has_skills) ==
    LET gls == has_time_windows \/ has_skills \/ node_count > 15
    IN  [first_solution_strategy |->
            IF node_count > 20 THEN "SAVINGS" ELSE "PATH_CHEAPEST_ARC",
         local_search_metaheuristic |->
            IF gls THEN "GUIDED_LOCAL_SEARCH" ELSE "UNSET",
         time_limit |-> IF gls THEN 15 ELSE 10]

\* the retry's search parameters
FallbackParameters ==
    [first_solution_strategy |-> "SAVINGS",
     local_search_metaheuristic |-> "SIMULATED_ANNEALING",
     time_limit |-> 20]

----------------------------------------------------------------------------
(* The routing capability (OR-tools), as the program uses it: given the      *)
(* routing model run_vrp_solver has built, SolveWithParameters returns an    *)
(* assignment that satisfies the model's hard constraints, or None.          *)
(* An assignment is one customer sequence per vehicle (node indices, without *)
(* the depot at both ends); every customer index is in exactly one of them.  *)
(* NodeToIndex(0) is the start index of vehicle 0, so a range set on the     *)
(* depot binds the start of vehicle 0 only.                                  *)

RECURSIVE Perms(_)
\* the orderings of a finite set
Perms(S) == IF S = {} THEN {<<>>}
            ELSE UNION {{<<x>> \o q : q \in Perms(S \ {x})} : x \in S}

RECURSIVE Splits(_, _)
\* the ways to cut sequence q into k consecutive (possibly empty) pieces
Splits(q, k) ==
    IF k = 0 THEN (IF q = <<>> THEN {<<>>} ELSE {})
    ELSE UNION {{<<SubSeq(q, 1, c)>> \o rest :
                    rest \in Splits(SubSeq(q, c + 1, Len(q)), k - 1)} :
                c \in 0 .. Len(q)}

\* every assignment of the customers 1 .. size - 1 to count vehicles
Assignments(size, count) ==
    UNION {Splits(q, count) : q \in Perms(1 .. (size - 1))}

\* a path that does not return to the depot
Path_open(route) == <<0>> \o route

\* the node indices vehicle's path visits, from its start to its end
Path(route) == <<0>> \o route \o <<0>>

\* the arcs' costs along a path (distance_callback)
ArcCosts(matrix, path) ==
    [k \in 1 .. (Len(path) - 1) |-> matrix[path[k] + 1][path[k + 1] + 1]]

RECURSIVE TimeFeasible(_, _, _, _, _, _)
\* whether cumulative times exist along path from its k-th stop on, the k-th
\* one being anywhere in lo .. hi: each transit is the arc's cost plus a
\* slack of 0 .. TimeSlack, every time is in 0 .. TimeCap and in the range
\* set on the stop's index (the path's last stop is the vehicle's end index,
\* which is not a node's index and has no range)
TimeFeasible(matrix, ranges, path, k, lo, hi) ==
    LET here == {r \in ranges : r[1] = path[k] /\ k < Len(path)}
        r == CHOOSE r \in here : TRUE
        lo1 == IF here # {} /\ r[2] > lo THEN r[2] ELSE lo
        hi1 == IF here # {} /\ r[3] < hi THEN r[3] ELSE hi
    IN  IF lo1 > hi1 THEN FALSE
        ELSE IF k = Len(path) THEN TRUE
        ELSE LET d == matrix[path[k] + 1][path[k + 1] + 1]
                 hi2 == IF hi1 + d + TimeSlack > TimeCap THEN TimeCap
                        ELSE hi1 + d + TimeSlack
             IN  TimeFeasible(matrix, ranges, path, k + 1, lo1 + d, hi2)

\* whether assignment a satisfies the constraints of routing model m
Feasible(m, a) ==
    \A v \in DOMAIN a :
        /\ SumSeq(ArcCosts(m.distance_matrix, Path(a[v]))) <= DistanceCap
        /\ m.time_dimension =>
             TimeFeasible(m.distance_matrix,
                          {r \in m.ranges : r[1] # 0 \/ v = 1},
                          Path(a[v]), 1, 0, TimeCap)
        /\ \A k \in DOMAIN a[v] : \A r \in m.allowed :
             r[1] = a[v][k] => (v - 1) \in r[2]

\* what SolveWithParameters may return for routing model m: any feasible
\* assignment; None when there is none, and also when some assignment is
\* infeasible (the search is a heuristic under a time limit, it may miss the
\* feasible ones).  When no constraint excludes anything, a solution is found.
SolveWithParameters(m) ==
    LET all == Assignments(Len(m.distance_matrix), m.num_vehicles)
        ok == {a \in all : Feasible(m, a)}
    IN  {[found |-> TRUE, routes |-> a] : a \in ok}
        \cup (IF ok = all THEN {} ELSE {[found |-> FALSE, routes |-> <<>>]})

----------------------------------------------------------------------------
(* Messages on self.queue. *)

Message(tag, text, numbers, skills, msg_routes, cost) ==
    [tag |-> tag, text |-> text, numbers |-> numbers, skills |-> skills,
     routes |-> msg_routes, cost |-> cost]

\* ("debug", f"Solving VRP with {node_count} total nodes ({customer_count}
\* customers) and {self.num_vehicles} vehicles")
DebugSolving(ns, count) ==
    Message("debug", "Solving VRP",
            <<Len(ns), Len(SelectSeq(ns, LAMBDA n : ~n.is_depot)), count>>,
            {}, <<>>, 0)

DebugRetry ==
    Message("debug", "First attempt failed. Trying with different solver settings...",
            <<>>, {}, <<>>, 0)

Success(msg_routes, cost) == Message("success", "", <<>>, {}, msg_routes, cost)

Error(text) == Message("error", text, <<>>, {}, <<>>, 0)

\* ("error", f"No vehicle has the skills required for node {node.id} (...)")
ErrorNoVehicle(node) ==
    Message("error", "No vehicle has the skills required for node",
            <<node.id>>, node.required_skills, <<>>, 0)

NeedCustomer == "Need at least one customer node to create routes."
NeedVehicle == "Need at least one vehicle to create routes."
RelaxTimeWindows == "Could not find a solution. Try relaxing time window constraints."
CheckSkills == "Could not find a solution. Check that vehicles have the necessary skills."
MoreVehicles == "Could not find a solution. Try using more vehicles or check if constraints are feasible."
\* the except clause of run_vrp_solver: "Error during solving: " + str(e)
IndexError == "Error during solving: list index out of range"
ManagerError == "Error during solving: routing index manager"
NodeIndexError == "Error during solving: node index out of range"

----------------------------------------------------------------------------
(* The solve: on_solve_vrp, the worker thread, check_solver_results. *)

NoData == [distance_matrix |-> <<>>, num_vehicles |-> 0, depot |-> 0]
NoSolution == [found |-> FALSE, routes |-> <<>>]
NoParameters == [first_solution_strategy |-> "", local_search_metaheuristic |-> "",
                 time_limit |-> 0]

\* a thread on_solve_vrp has started and that has not run yet; thread is its
\* number in start order
Thread(number) ==
    [thread |-> number,
     pc |-> "start",
     data |-> NoData,
     has_time_windows |-> FALSE,
     has_skills |-> FALSE,
     time_dimension |-> FALSE,
     ranges |-> {},
     allowed |-> {},
     search_parameters |-> NoParameters,
     solver_calls |-> 0,
     solution |-> NoSolution,
     vehicle_id |-> 0,
     routes |-> <<>>,
     max_route_distance |-> 0]

\* the routing model a thread has built
RoutingModel(w) ==
    [distance_matrix |-> w.data.distance_matrix,
     num_vehicles |-> w.data.num_vehicles,
     time_dimension |-> w.time_dimension,
     ranges |-> w.ranges,
     allowed |-> w.allowed]

\* Solve VRP (while fewer than max_solves were started, the bound of the model)
on_solve_vrp(max_solves) ==
    /\ IF Len(nodes) < 2
       THEN UNCHANGED <<workers, polls, solves>>
       ELSE /\ solves < max_solves
            /\ workers' = Append(workers, Thread(solves + 1))
            /\ polls' = polls + 1
            /\ solves' = solves + 1
    /\ UNCHANGED <<scenarioVars, routes, queue, disk>>

\* run_vrp_solver, lines 837-841: the first debug message
run_vrp_solver_begin(i) ==
    /\ workers[i].pc = "start"
    /\ queue' = Append(queue, DebugSolving(nodes, num_vehicles))
    /\ workers' = [workers EXCEPT ![i].pc = "build"]
    /\ UNCHANGED <<scenarioVars, routes, polls, solves, disk>>

\* lines 844-880: the matrix, the index manager, the Distance dimension
run_vrp_solver_build(i) ==
    /\ workers[i].pc = "build"
    /\ IF nodes = <<>>
       THEN \* RoutingIndexManager(0, vehicles, 0) is refused
            /\ queue' = Append(queue, Error(ManagerError))
            /\ workers' = RemoveAt(workers, i)
       ELSE /\ workers' = [workers EXCEPT
                  ![i].pc = "flags",
                  ![i].data = prepare_solver_data(nodes, num_vehicles)]
            /\ UNCHANGED queue
    /\ UNCHANGED <<scenarioVars, routes, polls, solves, disk>>

\* lines 883-885: has_time_windows, has_skills
run_vrp_solver_flags(i) ==
    /\ workers[i].pc = "flags"
    /\ workers' = [workers EXCEPT
          ![i].pc = "constrain",
          ![i].has_time_windows = HasTimeWindows(nodes),
          ![i].has_skills = HasSkills(nodes)]
    /\ UNCHANGED <<scenarioVars, routes, queue, polls, solves, disk>>

\* lines 888-961: the Time dimension and its ranges, the skill check, the
\* allowed vehicles, the search parameters.  The loops run over self.nodes
\* as it is now; the index manager knows the nodes the matrix was built for.
run_vrp_solver_constrain(i) ==
    LET w == workers[i]
        size == Len(w.data.distance_matrix)
        count == w.data.num_vehicles
        ranges == IF w.has_time_windows THEN TimeRanges(nodes) ELSE {}
        unservable == IF w.has_skills
                      THEN FirstUnservable(nodes, vehicle_skills, count) ELSE 0
        allowed == IF w.has_skills
                   THEN AllowedVehicles(nodes, vehicle_skills, count) ELSE {}
    IN  /\ w.pc = "constrain"
        /\ IF \E r \in ranges : r[1] >= size
           THEN \* manager.NodeToIndex of a node placed after the build
                /\ queue' = Append(queue, Error(NodeIndexError))
                /\ workers' = RemoveAt(workers, i)
           ELSE IF unservable # 0
           THEN /\ queue' = Append(queue, ErrorNoVehicle(nodes[unservable]))
                /\ workers' = RemoveAt(workers, i)
           ELSE IF \E r \in allowed : r[1] >= size
           THEN /\ queue' = Append(queue, Error(NodeIndexError))
                /\ workers' = RemoveAt(workers, i)
           ELSE /\ workers' = [workers EXCEPT
                      ![i].pc = "solve",
                      ![i].time_dimension = w.has_time_windows,
                      ![i].ranges = ranges,
                      ![i].allowed = allowed,
                      ![i].search_parameters =
                          SearchParameters(Len(nodes), w.has_time_windows, w.has_skills)]
                /\ UNCHANGED queue
        /\ UNCHANGED <<scenarioVars, routes, polls, solves, disk>>

\* line 968: the first attempt
run_vrp_solver_solve(i) ==
    /\ workers[i].pc = "solve"
    /\ \E solution \in SolveWithParameters(RoutingModel(workers[i])) :
          workers' = [workers EXCEPT
              ![i].pc = IF solution.found THEN "extract" ELSE "failed",
              ![i].solver_calls = @ + 1,
              ![i].solution = solution]
    /\ UNCHANGED <<scenarioVars, routes, queue, polls, solves, disk>>

\* route.append(self.nodes[node_idx].id) along a path: the ids, read from
\* the node list as it is now
RouteIds(ns, path) == [k \in DOMAIN path |-> ns[path[k] + 1].id]

\* an extraction that adds the vehicles' distances up
run_vrp_solver_extract_summing(i) ==
    LET w == workers[i]
        path == Path(w.solution.routes[w.vehicle_id + 1])
        route_distance == SumSeq(ArcCosts(w.data.distance_matrix, path))
        all_routes == Append(w.routes, RouteIds(nodes, path))
        max_route_distance == w.max_route_distance + route_distance
    IN  /\ w.pc = "extract"
        /\ IF \E k \in DOMAIN path : path[k] + 1 > Len(nodes)
           THEN /\ queue' = Append(queue, Error(IndexError))
                /\ workers' = RemoveAt(workers, i)
           ELSE IF w.vehicle_id + 1 < w.data.num_vehicles
           THEN /\ workers' = [workers EXCEPT
                      ![i].vehicle_id = @ + 1,
                      ![i].routes = all_routes,
                      ![i].max_route_distance = max_route_distance]
                /\ UNCHANGED queue
           ELSE /\ queue' = Append(queue, Success(all_routes, max_route_distance))
                /\ workers' = RemoveAt(workers, i)
        /\ UNCHANGED <<scenarioVars, routes, polls, solves, disk>>

\* an extraction without the try of run_vrp_solver around it: the IndexError
\* ends the thread and nothing is put
run_vrp_solver_extract_uncaught(i) ==
    LET w == workers[i]
        path == Path(w.solution.routes[w.vehicle_id + 1])
        route_distance == SumSeq(ArcCosts(w.data.distance_matrix, path))
        all_routes == Append(w.routes, RouteIds(nodes, path))
        max_route_distance == IF route_distance > w.max_route_distance
                              THEN route_distance ELSE w.max_route_distance
    IN  /\ w.pc = "extract"
        /\ IF \E k \in DOMAIN path : path[k] + 1 > Len(nodes)
           THEN /\ workers' = RemoveAt(workers, i)
                /\ UNCHANGED queue
           ELSE IF w.vehicle_id + 1 < w.data.num_vehicles
           THEN /\ workers' = [workers EXCEPT
                      ![i].vehicle_id = @ + 1,
                      ![i].routes = all_routes,
                      ![i].max_route_distance = max_route_distance]
                /\ UNCHANGED queue
           ELSE /\ queue' = Append(queue, Success(all_routes, max_route_distance))
                /\ workers' = RemoveAt(workers, i)
        /\ UNCHANGED <<scenarioVars, routes, polls, solves, disk>>

\* lines 975-999 (and 1035-1058 after the retry): one turn of the loop over
\* the vehicles; the last turn puts the success message.  A node index
\* beyond the end of self.nodes raises IndexError.
run_vrp_solver_extract(i) ==
    LET w == workers[i]
        path == Path(w.solution.routes[w.vehicle_id + 1])
        route_distance == SumSeq(ArcCosts(w.data.distance_matrix, path))
        all_routes == Append(w.routes, RouteIds(nodes, path))
        max_route_distance == IF route_distance > w.max_route_distance
                              THEN route_distance ELSE w.max_route_distance
    IN  /\ w.pc = "extract"
        /\ IF \E k \in DOMAIN path : path[k] + 1 > Len(nodes)
           THEN /\ queue' = Append(queue, Error(IndexError))
                /\ workers' = RemoveAt(workers, i)
           ELSE IF w.vehicle_id + 1 < w.data.num_vehicles
           THEN /\ workers' = [workers EXCEPT
                      ![i].vehicle_id = @ + 1,
                      ![i].routes = all_routes,
                      ![i].max_route_distance = max_route_distance]
                /\ UNCHANGED queue
           ELSE /\ queue' = Append(queue, Success(all_routes, max_route_distance))
                /\ workers' = RemoveAt(workers, i)
        /\ UNCHANGED <<scenarioVars, routes, polls, solves, disk>>

\* a failure handler that reports the diagnosis and goes on to the retry
run_vrp_solver_failed_twice(i) ==
    LET w == workers[i]
        diagnosis == IF Len(nodes) <= 1 THEN NeedCustomer
                     ELSE IF w.data.num_vehicles < 1 THEN NeedVehicle
                     ELSE IF w.has_time_windows THEN RelaxTimeWindows
                     ELSE IF w.has_skills THEN CheckSkills
                     ELSE ""
    IN  /\ w.pc = "failed"
        /\ queue' = Append(queue, IF diagnosis # "" THEN Error(diagnosis)
                                  ELSE DebugRetry)
        /\ workers' = [workers EXCEPT
              ![i].pc = "retry",
              ![i].search_parameters = FallbackParameters]
        /\ UNCHANGED <<scenarioVars, routes, polls, solves, disk>>

\* a failure handler that retries whenever nodes and vehicles are enough
run_vrp_solver_failed_retrying(i) ==
    LET w == workers[i]
        diagnosis == IF Len(nodes) <= 1 THEN NeedCustomer
                     ELSE IF w.data.num_vehicles < 1 THEN NeedVehicle
                     ELSE ""
    IN  /\ w.pc = "failed"
        /\ IF diagnosis # ""
           THEN /\ queue' = Append(queue, Error(diagnosis))
                /\ workers' = RemoveAt(workers, i)
           ELSE /\ queue' = Append(queue, DebugRetry)
                /\ workers' = [workers EXCEPT
                      ![i].pc = "retry",
                      ![i].search_parameters = FallbackParameters]
        /\ UNCHANGED <<scenarioVars, routes, polls, solves, disk>>

\* a failure handler that looks at the skills before the time windows
run_vrp_solver_failed_skills_first(i) ==
    LET w == workers[i]
        diagnosis == IF Len(nodes) <= 1 THEN NeedCustomer
                     ELSE IF w.data.num_vehicles < 1 THEN NeedVehicle
                     ELSE IF w.has_skills THEN CheckSkills
                     ELSE IF w.has_time_windows THEN RelaxTimeWindows
                     ELSE ""
    IN  /\ w.pc = "failed"
        /\ IF diagnosis # ""
           THEN /\ queue' = Append(queue, Error(diagnosis))
                /\ workers' = RemoveAt(workers, i)
           ELSE /\ queue' = Append(queue, DebugRetry)
                /\ workers' = [workers EXCEPT
                      ![i].pc = "retry",
                      ![i].search_parameters = FallbackParameters]
        /\ UNCHANGED <<scenarioVars, routes, polls, solves, disk>>

\* lines 1000-1013: no solution; the diagnosis, or the debug message of the retry
run_vrp_solver_failed(i) ==
    LET w == workers[i]
        diagnosis == IF Len(nodes) <= 1 THEN NeedCustomer
                     ELSE IF w.data.num_vehicles < 1 THEN NeedVehicle
                     ELSE IF w.has_time_windows THEN RelaxTimeWindows
                     ELSE IF w.has_skills THEN CheckSkills
                     ELSE ""
    IN  /\ w.pc = "failed"
        /\ IF diagnosis # ""
           THEN /\ queue' = Append(queue, Error(diagnosis))
                /\ workers' = RemoveAt(workers, i)
           ELSE /\ queue' = Append(queue, DebugRetry)
                /\ workers' = [workers EXCEPT
                      ![i].pc = "retry",
                      ![i].search_parameters = FallbackParameters]
        /\ UNCHANGED <<scenarioVars, routes, polls, solves, disk>>

\* line 1029: the retry, and line 1061 when it fails too
run_vrp_solver_retry(i) ==
    /\ workers[i].pc = "retry"
    /\ \E solution \in SolveWithParameters(RoutingModel(workers[i])) :
          IF solution.found
          THEN /\ workers' = [workers EXCEPT
                     ![i].pc = "extract",
                     ![i].solver_calls = @ + 1,
                     ![i].solution = solution]
               /\ UNCHANGED queue
          ELSE /\ queue' = Append(queue, Error(MoreVehicles))
               /\ workers' = RemoveAt(workers, i)
    /\ UNCHANGED <<scenarioVars, routes, polls, solves, disk>>

\* a poll that arms the next one whatever it consumed
check_solver_results_rearm ==
    /\ polls > 0
    /\ IF queue = <<>>
       THEN UNCHANGED <<queue, routes, polls>>
       ELSE LET result == Head(queue)
            IN  /\ queue' = Tail(queue)
                /\ routes' = IF result.tag = "success" THEN result.routes ELSE routes
                /\ polls' = polls
    /\ UNCHANGED <<scenarioVars, workers, solves, disk>>

\* a poll that arms no other after a debug message
check_solver_results_once ==
    /\ polls > 0
    /\ IF queue = <<>>
       THEN UNCHANGED <<queue, routes, polls>>
       ELSE LET result == Head(queue)
            IN  /\ queue' = Tail(queue)
                /\ routes' = IF result.tag = "success" THEN result.routes ELSE routes
                /\ polls' = polls - 1
    /\ UNCHANGED <<scenarioVars, workers, solves, disk>>

\* a poll that takes the shown routes down when it reports an error
check_solver_results_forgetting ==
    /\ polls > 0
    /\ IF queue = <<>>
       THEN UNCHANGED <<queue, routes, polls>>
       ELSE LET result == Head(queue)
            IN  /\ queue' = Tail(queue)
                /\ routes' = IF result.tag = "success" THEN result.routes
                             ELSE IF result.tag = "error" THEN <<>>
                             ELSE routes
                /\ polls' = IF result.tag = "debug" THEN polls ELSE polls - 1
    /\ UNCHANGED <<scenarioVars, workers, solves, disk>>

\* check_solver_results, run by an armed after(100, ...) callback
check_solver_results ==
    /\ polls > 0
    /\ IF queue = <<>>
       THEN \* nothing yet: check again
            UNCHANGED <<queue, routes, polls>>
       ELSE LET result == Head(queue)
            IN  /\ queue' = Tail(queue)
                /\ routes' = IF result.tag = "success" THEN result.routes ELSE routes
                /\ polls' = IF result.tag = "debug" THEN polls ELSE polls - 1
    /\ UNCHANGED <<scenarioVars, workers, solves, disk>>

----------------------------------------------------------------------------
(* Specifications. *)

\* a step of some worker thread
Worker ==
    \E i \in DOMAIN workers :
        \/ run_vrp_solver_begin(i)
        \/ run_vrp_solver_build(i)
        \/ run_vrp_solver_flags(i)
        \/ run_vrp_solver_constrain(i)
        \/ run_vrp_solver_solve(i)
        \/ run_vrp_solver_extract(i)
        \/ run_vrp_solver_failed(i)
        \/ run_vrp_solver_retry(i)

\* placing, selecting and removing nodes
EditNodes ==
    \/ \E p \in ClickPoints : on_canvas_click(p, MaxId)
    \/ \E p \in ClickPoints : on_canvas_right_click(p)
    \/ \E confirmed \in BOOLEAN : on_clear_all(confirmed)

\* no solve is under way: no thread runs, no message waits, no poll is armed
Idle == workers = <<>> /\ queue = <<>> /\ polls = 0

\* the history variable: what the scenario was when a thread was started
\* (on_solve_vrp) and the node list it built its matrix from
\* (prepare_solver_data)
Observe ==
    history' =
        IF solves' > solves
        THEN Append(history, [started |-> [nodes |-> nodes,
                                           num_vehicles |-> num_vehicles,
                                           vehicle_skills |-> vehicle_skills],
                              built |-> <<>>])
        ELSE LET building == {w \in Range(workers) :
                                /\ w.pc = "build"
                                /\ \E u \in Range(workers') :
                                      u.thread = w.thread /\ u.pc = "flags"}
             IN  [t \in DOMAIN history |->
                    IF \E w \in building : w.thread = t
                    THEN [history[t] EXCEPT !.built = nodes]
                    ELSE history[t]]

\* The session with a solve: the user places, selects and removes nodes,
\* moves the vehicle slider, solves and clears routes, all while the thread
\* runs.
Next ==
    \/ EditNodes /\ UNCHANGED history
    \/ (\E value \in VehicleCounts : on_vehicle_count_change(value))
          /\ UNCHANGED history
    \/ on_clear_routes /\ UNCHANGED history
    \/ on_solve_vrp(MaxSolves) /\ UNCHANGED history
    \/ Worker /\ UNCHANGED history
    \/ check_solver_results /\ UNCHANGED history

Spec == Init /\ [][Next]_vars

\* The same session, with the history variable kept.
NextObserved ==
    \/ EditNodes /\ Observe
    \/ (\E value \in VehicleCounts : on_vehicle_count_change(value)) /\ Observe
    \/ on_clear_routes /\ Observe
    \/ on_solve_vrp(MaxSolves) /\ Observe
    \/ Worker /\ Observe
    \/ check_solver_results /\ Observe

SpecObserved == Init /\ [][NextObserved]_vars

\* The session of two solves: the user places customers and presses Solve
\* again while the first thread runs.
NextRacing ==
    \/ (\E p \in Points : on_canvas_click(p, MaxId)) /\ UNCHANGED history
    \/ on_solve_vrp(MaxRacing) /\ UNCHANGED history
    \/ Worker /\ UNCHANGED history
    \/ check_solver_results /\ UNCHANGED history

SpecRacing == Init /\ [][NextRacing]_vars

\* The editing session with the preset file: no solve.
NextEdit ==
    \/ EditNodes /\ UNCHANGED history
    \/ (\E chosen \in BOOLEAN : on_save_preset(chosen)) /\ UNCHANGED history
    \/ (\E damage \in Damages : on_load_preset(damage)) /\ UNCHANGED history

SpecEdit == Init /\ [][NextEdit]_vars

\* The session with skills, the user waiting for each solve to be delivered
\* before the next operation: one customer, the skills a and b, the
\* checkboxes of the node and of vehicles 0 and 1, the vehicle slider.
NextSkills ==
    \/ Idle /\ (\E p \in {East, Centre} : on_canvas_click(p, MaxId))
            /\ UNCHANGED history
    \/ Idle /\ (\E text \in {"a", "b"} : on_add_skill(text))
            /\ UNCHANGED history
    \/ Idle /\ (\E skill \in {"a", "b"} : on_node_skill_toggle(skill))
            /\ UNCHANGED history
    \/ Idle /\ (\E vehicle_id \in 0 .. 1 : \E skill \in {"a", "b"} :
                    on_vehicle_skill_toggle(vehicle_id, skill))
            /\ UNCHANGED history
    \/ Idle /\ (\E value \in VehicleCounts : on_vehicle_count_change(value))
            /\ UNCHANGED history
    \/ Idle /\ on_solve_vrp(MaxSolves) /\ UNCHANGED history
    \/ Worker /\ UNCHANGED history
    \/ check_solver_results /\ UNCHANGED history

SpecSkills == Init /\ [][NextSkills]_vars

\* The session of far-apart customers, the user waiting for each solve: the
\* customers are placed at FarPoints in order, no skills, no time windows.
NextFar ==
    \/ Idle /\ (\E k \in DOMAIN FarPoints :
                    k = Len(nodes) /\ on_canvas_click(FarPoints[k], MaxFar))
            /\ UNCHANGED history
    \/ Idle /\ (\E value \in VehicleCounts : on_vehicle_count_change(value))
            /\ UNCHANGED history
    \/ Idle /\ on_solve_vrp(MaxSolves) /\ UNCHANGED history
    \/ Worker /\ UNCHANGED history
    \/ check_solver_results /\ UNCHANGED history

SpecFar == Init /\ [][NextFar]_vars

\* The session of two solves under fair scheduling: one customer placed and
\* the slider moved to one or two vehicles before the first solve, Solve
\* pressed again while a thread runs, the customer removed under the running
\* threads.  Every
\* thread that can take a step eventually takes one (each solver call
\* returns), and an armed after(100, ...) callback eventually runs.
NextLive ==
    \/ solves = 0 /\ on_canvas_click(East, MaxId) /\ UNCHANGED history
    \/ workers # <<>> /\ on_canvas_right_click(East) /\ UNCHANGED history
    \/ solves = 0 /\ (\E value \in VehicleCounts : on_vehicle_count_change(value))
          /\ UNCHANGED history
    \/ num_vehicles \in VehicleCounts /\ on_solve_vrp(MaxRacing)
          /\ UNCHANGED history
    \/ Worker /\ UNCHANGED history
    \/ check_solver_results /\ UNCHANGED history

SpecLive ==
    /\ Init
    /\ [][NextLive]_vars
    /\ WF_vars(Worker /\ UNCHANGED history)
    /\ WF_vars(check_solver_results /\ UNCHANGED history)

\* The session that builds a scenario and then saves and loads it: one
\* customer placed, selected and removed, a time window set and cleared on
\* it, the skills a and b added, its checkboxes and those of vehicle 0, the
\* vehicle slider; once a preset file is written the user only saves and
\* loads.
NextScenario ==
    \/ disk = None /\ on_canvas_click(East, MaxId) /\ UNCHANGED history
    \/ disk = None /\ on_canvas_right_click(East) /\ UNCHANGED history
    \/ disk = None /\ (\E start_text \in {"0", "100"} :
                          on_set_time_window(start_text, "50"))
          /\ UNCHANGED history
    \/ disk = None /\ on_clear_time_window /\ UNCHANGED history
    \/ disk = None /\ (\E text \in {"a", "b"} : on_add_skill(text))
          /\ UNCHANGED history
    \/ disk = None /\ (\E skill \in {"a", "b"} : on_node_skill_toggle(skill))
          /\ UNCHANGED history
    \/ disk = None /\ (\E skill \in {"a", "b"} : on_vehicle_skill_toggle(0, skill))
          /\ UNCHANGED history
    \/ disk = None /\ (\E value \in VehicleCounts : on_vehicle_count_change(value))
          /\ UNCHANGED history
    \/ (\E chosen \in BOOLEAN : on_save_preset(chosen)) /\ UNCHANGED history
    \/ (\E damage \in Damages : on_load_preset(damage)) /\ UNCHANGED history

SpecScenario == Init /\ [][NextScenario]_vars

\* The session of time windows: nodes placed, selected and removed, any of
\* the texts typed into the two entries, Set and Clear pressed.
NextWindows ==
    \/ EditNodes /\ UNCHANGED history
    \/ (\E start_text, end_text \in TimeTexts :
            on_set_time_window(start_text, end_text))
          /\ UNCHANGED history
    \/ on_clear_time_window /\ UNCHANGED history

SpecWindows == Init /\ [][NextWindows]_vars

\* The session of the skill catalog: one customer placed and selected, any
\* of the texts typed into the new-skill entry, skills deleted (the dialog
\* confirmed or declined), the checkboxes of the node and of vehicles 0 and
\* 1, the vehicle slider.
NextCatalog ==
    \/ on_canvas_click(East, MaxId) /\ UNCHANGED history
    \/ (\E text \in SkillTexts : on_add_skill(text)) /\ UNCHANGED history
    \/ (\E skill \in {"a", "b"} : \E confirmed \in BOOLEAN :
            on_delete_skill(skill, confirmed))
          /\ UNCHANGED history
    \/ (\E skill \in {"a", "b"} : on_node_skill_toggle(skill))
          /\ UNCHANGED history
    \/ (\E vehicle_id \in 0 .. 1 : \E skill \in {"a", "b"} :
            on_vehicle_skill_toggle(vehicle_id, skill))
          /\ UNCHANGED history
    \/ (\E value \in VehicleCounts : on_vehicle_count_change(value))
          /\ UNCHANGED history

SpecCatalog == Init /\ [][NextCatalog]_vars

\* the slider positions of the fleet session: below and above the four
\* vehicles the program starts with
FleetCounts == VehicleCounts \cup {DefaultVehicles + 1}

\* The session of the fleet: the skill a added, the slider moved down and
\* up, the checkbox of a on any of the vehicles shown.
NextFleet ==
    \/ on_add_skill("a") /\ UNCHANGED history
    \/ (\E value \in FleetCounts : on_vehicle_count_change(value))
          /\ UNCHANGED history
    \/ (\E vehicle_id \in 0 .. DefaultVehicles : on_vehicle_skill_toggle(vehicle_id, "a"))
          /\ UNCHANGED history

SpecFleet == Init /\ [][NextFleet]_vars

\* the user prepares a solve: none is under way and the bound allows another
Preparing == Idle /\ solves < MaxSolves

\* The session of every way a solve can end, the user preparing each solve
\* and waiting for it: far-apart customers placed in order, the slider moved
\* to one vehicle before Solve is pressed, the skill a on the first customer
\* (while it is the selected node) and on vehicle 0, the time window 0..50
\* on the first customer, the routes cleared between solves; the one edit
\* made while a thread runs is the removal of the newest customer.
NextPaths ==
    \/ Preparing /\ (\E k \in DOMAIN FarPoints :
                        k = Len(nodes) /\ on_canvas_click(FarPoints[k], MaxFar))
                 /\ UNCHANGED history
    \/ Preparing /\ on_vehicle_count_change(1) /\ UNCHANGED history
    \/ Preparing /\ on_add_skill("a") /\ UNCHANGED history
    \/ Preparing /\ selected_node = 2 /\ on_node_skill_toggle("a")
                 /\ UNCHANGED history
    \/ Preparing /\ on_vehicle_skill_toggle(0, "a") /\ UNCHANGED history
    \/ Preparing /\ selected_node = 2 /\ on_set_time_window("0", "50")
                 /\ UNCHANGED history
    \/ Preparing /\ num_vehicles = 1 /\ on_solve_vrp(MaxSolves)
                 /\ UNCHANGED history
    \/ workers # <<>> /\ Len(nodes) > 1
            /\ on_canvas_right_click(FarPoints[Len(nodes) - 1])
            /\ UNCHANGED history
    \/ Idle /\ on_clear_routes /\ UNCHANGED history
    \/ Worker /\ UNCHANGED history
    \/ check_solver_results /\ UNCHANGED history

SpecPaths == Init /\ [][NextPaths]_vars

\* The session of the two customers at (5, 0) and (-5, 0), without skills
\* and time windows, the user waiting for each solve; the one thing done
\* while a thread runs is the removal of a customer before the thread has
\* built its matrix, which leaves the thread a smaller problem.
NextPair ==
    \/ Idle /\ (\E p \in Points : on_canvas_click(p, MaxId))
            /\ UNCHANGED history
    \/ Idle /\ (\E value \in VehicleCounts : on_vehicle_count_change(value))
            /\ UNCHANGED history
    \/ Idle /\ on_solve_vrp(MaxSolves) /\ UNCHANGED history
    \/ (\E i \in DOMAIN workers : workers[i].pc \in {"start", "build"})
            /\ (\E p \in Points : on_canvas_right_click(p))
            /\ UNCHANGED history
    \/ Worker /\ UNCHANGED history
    \/ check_solver_results /\ UNCHANGED history

SpecPair == Init /\ [][NextPair]_vars

\* A session with every kind of error, of solves one after the other.  Before
\* the first solve a customer is placed at East, one vehicle is chosen, the customer may be given the skill
\* "a" no vehicle has or a time window it cannot be reached in, and the
\* preset is saved.  While a thread runs the user disturbs it in the three
\* ways that make it raise: the customer is removed, a second customer is
\* placed at West and given a time window, a file without the "nodes" key is
\* loaded.  At any time a time window with start after end is entered.
NextFaults ==
    \/ solves = 0 /\ on_canvas_click(East, MaxId) /\ UNCHANGED history
    \/ solves = 0 /\ on_vehicle_count_change(1) /\ UNCHANGED history
    \/ solves = 0 /\ on_add_skill("a") /\ UNCHANGED history
    \/ solves = 0 /\ disk = None /\ on_node_skill_toggle("a")
                  /\ UNCHANGED history
    \/ (solves = 0 => disk = None) /\ selected_node # 0
            /\ on_set_time_window("0", "50") /\ UNCHANGED history
    \/ on_set_time_window("100", "50") /\ UNCHANGED history
    \/ solves = 0 /\ Len(nodes) > 1 /\ disk = None /\ on_save_preset(TRUE)
                  /\ UNCHANGED history
    \/ num_vehicles = 1 /\ disk # None /\ Idle /\ on_solve_vrp(MaxRacing)
                        /\ UNCHANGED history
    \/ workers # <<>> /\ on_canvas_right_click(East) /\ UNCHANGED history
    \/ workers # <<>> /\ on_canvas_click(West, MaxId) /\ UNCHANGED history
    \/ workers # <<>> /\ on_load_preset("no_nodes") /\ UNCHANGED history
    \/ Worker /\ UNCHANGED history
    \/ check_solver_results /\ UNCHANGED history

SpecFaults == Init /\ [][NextFaults]_vars

\* The coordinate mapper on its own.  No window is needed for it: history
\* holds the chain of points the two conversions produce from a first point,
\* which is an integer canvas point (a click) or a problem-space point whose
\* coordinates are decimal numbers of a preset file.
CanvasInputs == {0, 7, 393, 400, 407, 450, 800} \X {0, 7, 293, 300, 307, 600}

\* decimal texts as <<digits, scale>>: 0, 5, -5, 0.7, -39.3, 0.01, 12.34
DecimalInputs ==
    {<<0, 1>>, <<5, 1>>, <<-5, 1>>, <<7, 10>>, <<-393, 10>>, <<1, 100>>,
     <<1234, 100>>}

ProblemInputs == DecimalInputs \X DecimalInputs

\* the chain is cut after this many conversions
MaxConversions == 3

InitCoords ==
    /\ nodes = << LET c == canvas_to_vrp_coords(Centre[1], Centre[2])
                  IN  VRPNode(0, c[1], c[2], TRUE) >>
    /\ selected_node = 0
    /\ id_counter = 0
    /\ num_vehicles = DefaultVehicles
    /\ available_skills = <<>>
    /\ vehicle_skills = update_vehicle_skills_ui(<<>>, DefaultVehicles)
    /\ vehicle_boxes = {}
    /\ node_boxes = {}
    /\ routes = <<>>
    /\ queue = <<>>
    /\ polls = 0
    /\ workers = <<>>
    /\ solves = 0
    /\ disk = None
    /\ \/ \E c \in CanvasInputs :
              history = << [space |-> "canvas",
                            point |-> <<float(c[1]), float(c[2])>>] >>
       \/ \E p \in ProblemInputs :
              history = << [space |-> "vrp",
                            point |-> <<Decimal(p[1][1], p[1][2]),
                                        Decimal(p[2][1], p[2][2])>>] >>

CallCanvasToVrp ==
    /\ Len(history) <= MaxConversions
    /\ Last(history).space = "canvas"
    /\ history' = Append(history,
            [space |-> "vrp",
             point |-> canvas_to_vrp_coords_binary64(Last(history).point[1],
                                                     Last(history).point[2])])
    /\ UNCHANGED <<scenarioVars, routes, solveVars, disk>>

CallVrpToCanvas ==
    /\ Len(history) <= MaxConversions
    /\ Last(history).space = "vrp"
    /\ history' = Append(history,
            [space |-> "canvas",
             point |-> vrp_to_canvas_coords_binary64(Last(history).point[1],
                                                     Last(history).point[2])])
    /\ UNCHANGED <<scenarioVars, routes, solveVars, disk>>

NextCoords ==
    \/ CallCanvasToVrp
    \/ CallVrpToCanvas

SpecCoords == InitCoords /\ [][NextCoords]_vars

\* The session with time windows, the user finishing the scenario before the
\* first solve: the depot and the customers East and West are selected by a
\* click, given one of two windows or none, a customer is removed again.
WindowTexts == {<<"0", "50">>, <<"50", "100">>}

NextTimes ==
    \/ solves = 0 /\ (\E p \in ClickPoints : on_canvas_click(p, MaxId))
                  /\ UNCHANGED history
    \/ solves = 0 /\ (\E p \in Points : on_canvas_right_click(p))
                  /\ UNCHANGED history
    \/ solves = 0 /\ (\E texts \in WindowTexts :
                          on_set_time_window(texts[1], texts[2]))
                  /\ UNCHANGED history
    \/ solves = 0 /\ on_clear_time_window /\ UNCHANGED history
    \/ Idle /\ on_solve_vrp(MaxSolves) /\ UNCHANGED history
    \/ Worker /\ UNCHANGED history
    \/ check_solver_results /\ UNCHANGED history

SpecTimes == Init /\ [][NextTimes]_vars

\* The search parameters as a function of the scenario: the thread's lines
\* 883-884 and 940-961 applied to node lists of the sizes around the two
\* thresholds, with and without a time window, with and without a required
\* skill.  history records each application.
NodeCounts == {2, 15, 16, 20, 21, 22}

\* a node list of n nodes, the depot first, the customers in a row; the last
\* customer has a window when tw and requires a skill when sk
SearchScenario(n, tw, sk) ==
    [k \in 1 .. n |->
        [VRPNode(IF k = 1 THEN 0 ELSE k - 2, (k - 1) * Unit, 0, k = 1) EXCEPT
            !.time_window = IF tw /\ k = n THEN <<0, 50>> ELSE None,
            !.required_skills = IF sk /\ k = n THEN {"a"} ELSE {}]]

\* this many applications are recorded
MaxCalls == 2

CallSearchParameters ==
    /\ Len(history) < MaxCalls
    /\ \E n \in NodeCounts : \E tw \in BOOLEAN : \E sk \in BOOLEAN :
          LET ns == SearchScenario(n, tw, sk)
              has_time_windows == HasTimeWindows(ns)
              has_skills == HasSkills(ns)
          IN  history' = Append(history,
                  [nodes |-> ns,
                   has_time_windows |-> has_time_windows,
                   has_skills |-> has_skills,
                   search_parameters |->
                       SearchParameters(Len(ns), has_time_windows, has_skills)])
    /\ UNCHANGED <<scenarioVars, routes, solveVars, disk>>

NextSearch == CallSearchParameters

SpecSearch == Init /\ [][NextSearch]_vars

\* prepare_solver_data as a function of the scenario: the node list is the
\* depot and one or two customers placed by clicks, with the float
\* coordinates on_canvas_click gives them; the vehicle slider moves; history
\* records what each call returns.
Skewed == <<440, 291>>

MatrixScenarios ==
    {<<East>>, <<West>>, <<Skewed>>, <<East, West>>, <<Skewed, East>>}

\* the node on_canvas_click places for a click at canvas point p
PlacedNode(id, p, is_depot) ==
    LET c == canvas_to_vrp_coords_binary64(float(p[1]), float(p[2]))
    IN  VRPNode(id, c[1], c[2], is_depot)

InitMatrix ==
    /\ \E clicks \in MatrixScenarios :
          /\ nodes = <<PlacedNode(0, Centre, TRUE)>>
                        \o [k \in DOMAIN clicks |-> PlacedNode(k - 1, clicks[k], FALSE)]
          /\ id_counter = Len(clicks)
    /\ selected_node = 0
    /\ num_vehicles = DefaultVehicles
    /\ available_skills = <<>>
    /\ vehicle_skills = update_vehicle_skills_ui(<<>>, DefaultVehicles)
    /\ vehicle_boxes = {}
    /\ node_boxes = {}
    /\ routes = <<>>
    /\ queue = <<>>
    /\ polls = 0
    /\ workers = <<>>
    /\ solves = 0
    /\ disk = None
    /\ history = <<>>

CallPrepareSolverData ==
    /\ Len(history) < MaxCalls
    /\ history' = Append(history, prepare_solver_data_binary64(nodes, num_vehicles))
    /\ UNCHANGED <<scenarioVars, routes, solveVars, disk>>

NextMatrix ==
    \/ CallPrepareSolverData
    \/ (\E value \in VehicleCounts : on_vehicle_count_change(value))
           /\ UNCHANGED history

SpecMatrix == InitMatrix /\ [][NextMatrix]_vars

----------------------------------------------------------------------------
(* Steps of a thread and undisturbed solves, as the claims speak of them. *)

\* thread workers[i] ends in this step, putting its last message
Finishing(i) ==
    /\ i \in DOMAIN workers
    /\ workers' = RemoveAt(workers, i)
    /\ Len(queue') = Len(queue) + 1

\* thread workers[i] takes this step
Stepped(i) ==
    \/ Finishing(i)
    \/ /\ Len(workers') = Len(workers)
       /\ workers'[i] # workers[i]

\* the message put in this step
Delivered == Last(queue')

\* the route the extraction step of thread workers[i] produces, None when it
\* raises
ExtractedRoute(i) ==
    IF Finishing(i)
    THEN IF Delivered.tag = "success" THEN Last(Delivered.routes) ELSE None
    ELSE Last(workers'[i].routes)

\* the routing model of scenario s (nodes, num_vehicles, vehicle_skills)
SnapshotModel(s) ==
    [distance_matrix |-> prepare_solver_data(s.nodes, s.num_vehicles).distance_matrix,
     num_vehicles |-> s.num_vehicles,
     time_dimension |-> HasTimeWindows(s.nodes),
     ranges |-> IF HasTimeWindows(s.nodes) THEN TimeRanges(s.nodes) ELSE {},
     allowed |-> IF HasSkills(s.nodes)
                 THEN AllowedVehicles(s.nodes, s.vehicle_skills, s.num_vehicles)
                 ELSE {}]

\* the success message of assignment a for scenario s
SnapshotSuccess(s, a) ==
    LET matrix == prepare_solver_data(s.nodes, s.num_vehicles).distance_matrix
    IN  Success([v \in DOMAIN a |-> RouteIds(s.nodes, Path(a[v]))],
                MaxSeq([v \in DOMAIN a |-> SumSeq(ArcCosts(matrix, Path(a[v])))]))

\* the last messages a solve of scenario s may put when nothing disturbs it
SnapshotOutcomes(s) ==
    LET bad == IF HasSkills(s.nodes)
               THEN FirstUnservable(s.nodes, s.vehicle_skills, s.num_vehicles)
               ELSE 0
        found == SolveWithParameters(SnapshotModel(s))
        diagnosis == IF HasTimeWindows(s.nodes) THEN RelaxTimeWindows
                     ELSE IF HasSkills(s.nodes) THEN CheckSkills
                     ELSE MoreVehicles
    IN  IF bad # 0 THEN {ErrorNoVehicle(s.nodes[bad])}
        ELSE {SnapshotSuccess(s, x.routes) : x \in {y \in found : y.found}}
             \cup (IF NoSolution \in found THEN {Error(diagnosis)} ELSE {})

\* how often id occurs in the routes rs
Occurrences(rs, id) ==
    Cardinality({p \in UNION {{<<v, k>> : k \in DOMAIN rs[v]} : v \in DOMAIN rs} :
                    rs[p[1]][p[2]] = id})

----------------------------------------------------------------------------
(* Claims. *)

\* C1: snapshot isolation of a solve.  Whatever the user edits while a thread
\* runs, the matrix the thread has built is the one of the scenario as it was
\* when on_solve_vrp started the thread, and the thread's last message is one
\* an undisturbed solve of that scenario puts.
C1_SnapshotIsolation ==
    [][\A i \in DOMAIN workers :
          LET s == history[workers[i].thread].started
          IN  /\ \A u \in Range(workers') :
                    u.thread = workers[i].thread /\ u.pc \notin {"start", "build"}
                        => u.data = prepare_solver_data(s.nodes, s.num_vehicles)
              /\ Finishing(i) => Delivered \in SnapshotOutcomes(s)]_vars

\* C2: at most one solve is in flight: no two threads of run_vrp_solver run
\* at the same time.
C2_OneSolveInFlight ==
    Cardinality({i \in DOMAIN workers : workers[i].pc # "start"}) <= 1

\* C3: index-to-id correspondence.  Whatever nodes the user adds and removes
\* between the build and the extraction, every extraction step yields a
\* route, and the ids in it are the ids of the nodes that were at the path's
\* matrix positions when prepare_solver_data built the matrix.
C3_IndexToIdCorrespondence ==
    [][\A i \in DOMAIN workers :
          workers[i].pc = "extract" /\ Stepped(i) =>
              LET w == workers[i]
                  built == history[w.thread].built
                  path == Path(w.solution.routes[w.vehicle_id + 1])
              IN  ExtractedRoute(i) = RouteIds(built, path)]_vars

\* C4: the routes of a success message partition the customers.  When a
\* thread puts a success message for a scenario that is as it was when the
\* thread was started, every non-depot node's id occurs exactly once in all
\* the routes together.
C4_RoutesPartitionCustomers ==
    [][\A i \in DOMAIN workers :
          /\ Finishing(i)
          /\ Delivered.tag = "success"
          /\ nodes = history[workers[i].thread].started.nodes
          /\ nodes = history[workers[i].thread].built
          => \A n \in DOMAIN nodes :
                ~nodes[n].is_depot => Occurrences(Delivered.routes, nodes[n].id) = 1]_vars

\* C5: in every state of the editing session the ids of the non-depot nodes
\* are greater than 0 and pairwise distinct.
C5_CustomerIdsPositiveDistinct ==
    \A i \in DOMAIN nodes :
        ~nodes[i].is_depot =>
            /\ nodes[i].id > 0
            /\ \A j \in DOMAIN nodes :
                  j # i /\ ~nodes[j].is_depot => nodes[j].id # nodes[i].id

\* C6: in every state of the editing session exactly one node is the depot
\* and its id is 0; a right click on the depot leaves the node list as it is.
C6_ExactlyOneDepot ==
    [][/\ Cardinality({i \in DOMAIN nodes' : nodes'[i].is_depot}) = 1
       /\ \A i \in DOMAIN nodes' : nodes'[i].is_depot => nodes'[i].id = 0
       /\ \A p \in ClickPoints :
             LET clicked == ClickedNode(nodes, p[1], p[2])
             IN  /\ on_canvas_right_click(p)
                 /\ clicked # 0
                 /\ nodes[clicked].is_depot
                 => nodes' = nodes]_vars

\* C7: every success message carries one route per vehicle of the routing
\* problem, in vehicle order; each route begins and ends with the depot id 0,
\* and the route of a vehicle without customers is [0, 0].
C7_SuccessRoutesShape ==
    [][\A i \in DOMAIN workers :
          Finishing(i) /\ Delivered.tag = "success" =>
              LET w == workers[i]
                  rs == Delivered.routes
              IN  /\ Len(rs) = w.data.num_vehicles
                  /\ \A v \in DOMAIN rs :
                        /\ Len(rs[v]) = Len(w.solution.routes[v]) + 2
                        /\ Head(rs[v]) = 0
                        /\ Last(rs[v]) = 0
                        /\ w.solution.routes[v] = <<>> => rs[v] = <<0, 0>>]_vars

\* C7's case: a success message for two or more vehicles, one with a
\* customer and one without
C7_Witness ==
    \E k \in DOMAIN queue :
        /\ queue[k].tag = "success"
        /\ \E v \in DOMAIN queue[k].routes : queue[k].routes[v] = <<0, 0>>
        /\ \E v \in DOMAIN queue[k].routes : Len(queue[k].routes[v]) > 2

\* C8: a solve of a scenario with a customer, a vehicle, no skills and no time
\* windows ends with a success message, also when the shortest single-vehicle
\* tour is longer than DistanceCap: it ends with an error message at most
\* when the routing capability returned no solution for a routing model that
\* has one.
C8_UnconstrainedSolveSucceeds ==
    [][\A i \in DOMAIN workers :
          /\ Finishing(i)
          /\ ~HasSkills(nodes) /\ ~HasTimeWindows(nodes)
          /\ Delivered.tag = "error"
          => \E a \in Assignments(Len(workers[i].data.distance_matrix),
                                  workers[i].data.num_vehicles) :
                Feasible(RoutingModel(workers[i]), a)]_vars

\* C9: build-time infeasibility.  When the thread comes to its skill check
\* and some node requires skills that no vehicle below the vehicle count
\* holds all of, the thread ends there with an error message naming such a
\* node, and SolveWithParameters was not called; when every node with
\* required skills has a vehicle, the thread puts no message and goes on to
\* the solver.
C9_BuildTimeInfeasibility ==
    [][\A i \in DOMAIN workers :
          workers[i].pc = "constrain" /\ Stepped(i) =>
              LET eligible(n) ==
                      {v \in 0 .. (num_vehicles - 1) :
                          nodes[n].required_skills
                              \subseteq Range(SkillsOf(vehicle_skills, v))}
                  bad == {n \in DOMAIN nodes :
                             nodes[n].required_skills # {} /\ eligible(n) = {}}
              IN  IF bad # {}
                  THEN /\ Finishing(i)
                       /\ \E n \in bad : Delivered = ErrorNoVehicle(nodes[n])
                       /\ workers[i].solver_calls = 0
                  ELSE /\ queue' = queue
                       /\ workers'[i].pc = "solve"]_vars

\* C9's case: the error message names a node that requires two skills, and a
\* vehicle below the count holds one of them
C9_Witness ==
    \E k \in DOMAIN queue :
        /\ queue[k] \in {ErrorNoVehicle(nodes[n]) : n \in DOMAIN nodes}
        /\ Cardinality(queue[k].skills) = 2
        /\ \E v \in 0 .. (num_vehicles - 1) :
              Range(SkillsOf(vehicle_skills, v)) \cap queue[k].skills # {}

\* C10: result delivery.  A poll consumes at most one message; on an empty
\* queue and after a debug message the poll is armed again, after a success
\* or error message it is not; the routes are replaced by a success
\* message's routes and by nothing else.
C10_ResultDelivery ==
    [][check_solver_results =>
          IF queue = <<>>
          THEN queue' = queue /\ polls' = polls /\ routes' = routes
          ELSE /\ queue' = Tail(queue)
               /\ polls' = IF Head(queue).tag \in {"success", "error"}
                           THEN polls - 1 ELSE polls
               /\ routes' = IF Head(queue).tag = "success"
                            THEN Head(queue).routes ELSE routes]_vars

\* C10's case: the success message of the solve was consumed, its routes are
\* shown and no poll is armed
C10_Witness ==
    /\ solves = 1
    /\ workers = <<>>
    /\ queue = <<>>
    /\ polls = 0
    /\ routes # <<>>


----------------------------------------------------------------------------
(* The course of one solve. *)

\* the positions of run_vrp_solver a thread can be at, by the state of the
\* solve: Building (start, build, flags, constrain), FirstAttempt (solve,
\* failed), Retrying (retry), Success (extract)
Transitions ==
    {<<"start", "build">>, <<"build", "flags">>, <<"flags", "constrain">>,
     <<"constrain", "solve">>, <<"solve", "extract">>, <<"solve", "failed">>,
     <<"failed", "retry">>, <<"retry", "extract">>, <<"extract", "extract">>}

\* C11: every thread moves Building -> FirstAttempt -> (Success | Retrying)
\* -> (Success | Failure); a step puts at most one message; the step that
\* puts a success or error message is the thread's last step, whichever way
\* the solve ends, so that message is the only terminal one and the last of
\* the thread; every other message of the thread is a debug message put
\* before it; success is reported from the extraction only; and a thread
\* never ends without its terminal message.
C11_OneTerminalMessage ==
    [][/\ \A i \in DOMAIN workers :
            Stepped(i) =>
               /\ queue' # queue => queue' = Append(queue, Delivered)
               /\ IF Finishing(i)
                  THEN /\ Delivered.tag \in {"success", "error"}
                       /\ Delivered.tag = "success" => workers[i].pc = "extract"
                  ELSE /\ <<workers[i].pc, workers'[i].pc>> \in Transitions
                       /\ queue' # queue => Delivered.tag = "debug"
       /\ Len(workers') < Len(workers) => \E i \in DOMAIN workers : Finishing(i)
      ]_vars

\* a solve has ended with the success of its retry: the two debug messages,
\* then the terminal one, and the thread is gone
C11_Witness ==
    /\ workers = <<>>
    /\ solves = 1
    /\ Len(queue) = 3
    /\ queue[1].tag = "debug"
    /\ queue[2] = DebugRetry
    /\ queue[3].tag = "success"

\* C12: under fair scheduling of the threads and of the poll timer, whenever
\* a solve is under way (a thread runs, a message waits or a poll is armed)
\* the session is eventually Idle again: every thread has ended, every
\* message, the terminal ones included, has been consumed by
\* check_solver_results, no poll is armed; also when Solve was pressed again
\* before the first result.
C12_SolveLiveness == ~Idle ~> Idle

\* two solves were started and the session is Idle again
C12_Witness == Idle /\ solves > 1

\* C13: a thread calls the solver at most twice.  The first call is the
\* step from "solve"; the second, with the savings construction, simulated
\* annealing and 20 time units, is the step from "retry".  A thread comes to
\* "retry" only from a first attempt that found nothing, and it does so if
\* and only if there are more than one node, at least one vehicle, and the
\* thread saw neither time windows nor required skills; with either of them
\* the thread ends instead.
C13_SingleRetry ==
    [][\A i \in DOMAIN workers :
          Stepped(i) =>
             LET w == workers[i]
                 retried == ~Finishing(i) /\ workers'[i].pc = "retry"
             IN  /\ w.pc = "solve" => w.solver_calls = 0
                 /\ w.pc = "retry" =>
                       /\ w.solver_calls = 1
                       /\ w.search_parameters =
                             [first_solution_strategy |-> "SAVINGS",
                              local_search_metaheuristic |-> "SIMULATED_ANNEALING",
                              time_limit |-> 20]
                 /\ ~Finishing(i) =>
                       /\ workers'[i].solver_calls <= 2
                       /\ workers'[i].solver_calls > w.solver_calls =>
                             w.pc \in {"solve", "retry"}
                 /\ retried => w.pc = "failed" /\ ~w.solution.found
                 /\ w.pc = "failed" =>
                       (retried <=> /\ Len(nodes) > 1
                                    /\ w.data.num_vehicles >= 1
                                    /\ ~w.has_time_windows
                                    /\ ~w.has_skills)
                 /\ w.pc = "failed" /\ (w.has_time_windows \/ w.has_skills) =>
                       Finishing(i) /\ w.solver_calls = 1
      ]_vars

\* a thread has called the solver a second time, and it found routes
C13_Witness ==
    \E i \in DOMAIN workers :
        /\ workers[i].solver_calls = 2
        /\ workers[i].pc = "extract"
        /\ workers[i].search_parameters = FallbackParameters
        /\ ~workers[i].has_time_windows /\ ~workers[i].has_skills

\* C14: a first attempt that found nothing is diagnosed in this order: at
\* most one node, the "need at least one customer" error; else no vehicle,
\* the "need at least one vehicle" error; else time windows seen (skills or
\* not), the "relax time windows" error; else skills seen, the "check
\* skills" error; else the retry, announced by its debug message, and when
\* the retry finds nothing either, the "more vehicles" error.  Each failed
\* attempt has exactly one of these outcomes.
C14_DiagnosisPrecedence ==
    [][\A i \in DOMAIN workers :
          Stepped(i) =>
             LET w == workers[i]
                 expected ==
                     IF Len(nodes) <= 1 THEN
                        "Need at least one customer node to create routes."
                     ELSE IF w.data.num_vehicles < 1 THEN
                        "Need at least one vehicle to create routes."
                     ELSE IF w.has_time_windows THEN
                        "Could not find a solution. Try relaxing time window constraints."
                     ELSE IF w.has_skills THEN
                        "Could not find a solution. Check that vehicles have the necessary skills."
                     ELSE ""
             IN  /\ w.pc = "failed" =>
                       /\ queue' = Append(queue, Delivered)
                       /\ IF expected # ""
                          THEN Finishing(i) /\ Delivered = Error(expected)
                          ELSE /\ ~Finishing(i)
                               /\ workers'[i].pc = "retry"
                               /\ Delivered.tag = "debug"
                 /\ w.pc = "retry" /\ Finishing(i) =>
                       /\ queue' = Append(queue, Delivered)
                       /\ Delivered = Error("Could not find a solution. Try using more vehicles or check if constraints are feasible.")
      ]_vars

\* a failed attempt with both time windows and skills was diagnosed
C14_Witness ==
    /\ workers = <<>>
    /\ queue # <<>>
    /\ Last(queue) = Error(RelaxTimeWindows)
    /\ HasTimeWindows(nodes) /\ HasSkills(nodes)

----------------------------------------------------------------------------
(* The preset file. *)

\* the live scenario a load replaces
liveScenario == <<nodes, selected_node, routes, num_vehicles, available_skills,
                  vehicle_skills, id_counter>>

\* C15: a load that fails (the file is not JSON, or one of the keys nodes,
\* num_vehicles, available_skills, vehicle_skills or a node's id is
\* missing) leaves the nodes, the selection, the routes, the vehicle count,
\* the catalog, the vehicle skills and the id counter as they were.
C15_LoadAtomicity ==
    [][(\E damage \in {"unreadable", "no_nodes", "no_node_id", "no_num_vehicles",
                       "no_available_skills", "no_vehicle_skills"} :
            on_load_preset(damage))
        => UNCHANGED liveScenario]_vars

\* C16: Save Preset changes nothing of the live scenario; and Load Preset of
\* the file that holds the scenario as it is now (it was just saved) gives
\* the same list of nodes (ids, positions, is_depot, time windows, required
\* skills), the same vehicle count, the same catalog in the same order and
\* the same vehicle skills, keyed by integers.
C16_SaveLoadRoundTrip ==
    [][/\ (\E chosen \in BOOLEAN : on_save_preset(chosen)) =>
              UNCHANGED <<liveScenario, widgetVars>>
       /\ (/\ on_load_preset("none")
           /\ disk = PresetOf(nodes, num_vehicles, available_skills, vehicle_skills))
          => /\ nodes' = nodes
             /\ num_vehicles' = num_vehicles
             /\ available_skills' = available_skills
             /\ vehicle_skills' = vehicle_skills
             /\ DOMAIN vehicle_skills' \subseteq Nat
      ]_vars

\* a scenario with a customer that has a time window and a required skill,
\* two skills in the catalog and a skilled vehicle has been saved and loaded:
\* the file holds it and nothing is selected
C16_Witness ==
    /\ disk # None
    /\ disk = PresetOf(nodes, num_vehicles, available_skills, vehicle_skills)
    /\ selected_node = 0
    /\ Len(available_skills) = 2
    /\ \E i \in DOMAIN nodes :
          /\ ~nodes[i].is_depot
          /\ nodes[i].time_window # None
          /\ nodes[i].required_skills # {}
    /\ \E v \in DOMAIN vehicle_skills : Len(vehicle_skills[v]) = 2

----------------------------------------------------------------------------
(* Skills and time windows. *)

\* a list of skills without skill, the others in their order
Without(skills, skill) == SelectSeq(skills, LAMBDA s : s # skill)

\* C17: a confirmed delete of a skill takes it out of the catalog, out of
\* the list of every vehicle that has an entry (below the vehicle count or
\* not) and out of the required skills of every node, and changes nothing
\* else: the other skills keep their order, the nodes their other fields,
\* the selection, the id counter, the vehicle count and the routes stay.  A
\* declined delete changes nothing.
C17_SkillCascade ==
    [][\A skill \in Range(available_skills) :
          /\ on_delete_skill(skill, TRUE) =>
                /\ available_skills' = Without(available_skills, skill)
                /\ skill \notin Range(available_skills')
                /\ DOMAIN vehicle_skills \subseteq DOMAIN vehicle_skills'
                /\ \A v \in DOMAIN vehicle_skills' :
                      /\ vehicle_skills'[v] =
                            Without(SkillsOf(vehicle_skills, v), skill)
                      /\ skill \notin Range(vehicle_skills'[v])
                /\ DOMAIN nodes' = DOMAIN nodes
                /\ \A i \in DOMAIN nodes :
                      /\ nodes'[i] = [nodes[i] EXCEPT
                                         !.required_skills = @ \ {skill}]
                      /\ skill \notin nodes'[i].required_skills
                /\ UNCHANGED <<selected_node, id_counter, num_vehicles, routes>>
          /\ on_delete_skill(skill, FALSE) =>
                UNCHANGED <<liveScenario, widgetVars>>
      ]_vars

\* the last skill of the catalog has been deleted: a checked box of it is
\* still shown for a vehicle and for the selected node, and neither the
\* vehicle nor any node has the skill
C17_Witness ==
    /\ available_skills = <<>>
    /\ \E box \in vehicle_boxes :
          box[3] /\ SkillsOf(vehicle_skills, box[1]) = <<>>
    /\ \E box \in node_boxes : box[2]
    /\ \A i \in DOMAIN nodes : nodes[i].required_skills = {}
    /\ \A v \in DOMAIN vehicle_skills : vehicle_skills[v] = <<>>

\* the two entries' texts are refused: one is empty after trimming, one is
\* not an integer, the start is not below the end, or the start is negative
Rejected(start_text, end_text) ==
    LET s == strip(start_text)
        e == strip(end_text)
    IN  \/ s = "" \/ e = ""
        \/ ~IsIntText(s) \/ ~IsIntText(e)
        \/ int(s) >= int(e)
        \/ int(s) < 0

\* a time window is a pair of integers start, end with 0 <= start < end
WellFormed(tw) ==
    /\ tw \in Int \X Int
    /\ 0 <= tw[1]
    /\ tw[1] < tw[2]

\* C18: Set Time Window with texts that are empty, not integers, with start
\* >= end or with start < 0 changes nothing, the selected node's window
\* included; with other texts it stores on the selected node the pair of the
\* two integers, which satisfies 0 <= start < end, and changes nothing else.
C18_TimeWindowValidation ==
    [][\A start_text, end_text \in TimeTexts :
          on_set_time_window(start_text, end_text) =>
             /\ UNCHANGED <<selected_node, routes, num_vehicles, available_skills,
                            vehicle_skills, id_counter>>
             /\ IF Rejected(start_text, end_text) \/ selected_node = 0
                THEN UNCHANGED nodes
                ELSE /\ nodes' = [nodes EXCEPT ![selected_node].time_window =
                                     <<int(strip(start_text)), int(strip(end_text))>>]
                     /\ WellFormed(nodes'[selected_node].time_window)
      ]_vars

\* the selected node has got the time window 50..100
C18_Witness ==
    /\ selected_node # 0
    /\ nodes[selected_node].time_window = <<50, 100>>

\* C19: in every state every node's time window is absent or a pair of
\* integers start, end with start >= 0 and start < end.
C19_TimeWindowsWellFormed ==
    \A i \in DOMAIN nodes :
        nodes[i].time_window = None \/ WellFormed(nodes[i].time_window)

\* where skill stands in a list of distinct skills
Position(skills, skill) == CHOOSE k \in DOMAIN skills : skills[k] = skill

\* C20: Add Skill with a text that is empty after trimming, or whose trimmed
\* form is in the catalog, leaves the catalog as it is; otherwise it appends
\* the trimmed text.  Whatever step is taken, an add or a delete among them,
\* the catalog afterwards has no empty name and no name twice, and the
\* skills that stay keep their relative order.
C20_AddSkillValidation ==
    [][/\ \A text \in SkillTexts :
             on_add_skill(text) =>
                IF strip(text) = "" \/ strip(text) \in Range(available_skills)
                THEN UNCHANGED <<liveScenario, widgetVars>>
                ELSE available_skills' = Append(available_skills, strip(text))
       /\ "" \notin Range(available_skills')
       /\ \A j, k \in DOMAIN available_skills' :
             available_skills'[j] = available_skills'[k] => j = k
       /\ \A s, t \in Range(available_skills) \cap Range(available_skills') :
             Position(available_skills, s) < Position(available_skills, t)
                => Position(available_skills', s) < Position(available_skills', t)
      ]_vars

\* the catalog holds b before a: b was added first, or a was deleted and
\* added again
C20_Witness == available_skills = <<"b", "a">>

----------------------------------------------------------------------------
(* The fleet, the ids, the routes. *)

\* C21: moving the slider to n sets the vehicle count to n and leaves the
\* skill list of every vehicle that had an entry as it was, below n or not:
\* no entry is dropped.  The only new entries are empty ones for the indices
\* below n that had none, and every index below n has an entry afterwards.
C21_CountChangeKeepsSkills ==
    [][\A value \in FleetCounts :
          on_vehicle_count_change(value) =>
             /\ num_vehicles' = value
             /\ \A v \in DOMAIN vehicle_skills :
                   v \in DOMAIN vehicle_skills' /\ vehicle_skills'[v] = vehicle_skills[v]
             /\ \A v \in DOMAIN vehicle_skills' \ DOMAIN vehicle_skills :
                   v \in 0 .. (value - 1) /\ vehicle_skills'[v] = <<>>
             /\ 0 .. (value - 1) \subseteq DOMAIN vehicle_skills'
             /\ UNCHANGED <<nodes, selected_node, id_counter, available_skills, routes>>
      ]_vars

\* the slider went up to five vehicles (vehicle 4 got its entry), vehicle 4
\* and vehicle 3 were given the skill, and the slider is down at one: both
\* keep it
C21_Witness ==
    /\ num_vehicles = 1
    /\ 4 \in DOMAIN vehicle_skills
    /\ vehicle_skills[4] = <<"a">>
    /\ vehicle_skills[3] = <<"a">>

\* C22: a step that is not a Load Preset (a placement, a selection, a
\* removal, Clear All, a save) never lowers the id counter; a placed
\* customer gets the counter's value as its id and the counter goes up by
\* one, so its id is above the id of every customer placed since the last
\* load, removed or not; and every customer in the list has an id below the
\* counter, the loaded ones too.
C22_IdsNeverReused ==
    [][/\ ~(\E damage \in Damages : on_load_preset(damage)) =>
             /\ id_counter' >= id_counter
             /\ Len(nodes') > Len(nodes) =>
                   /\ nodes' = Append(nodes, Last(nodes'))
                   /\ Last(nodes').id = id_counter
                   /\ id_counter' = id_counter + 1
                   /\ \A i \in DOMAIN nodes :
                         ~nodes[i].is_depot => nodes[i].id < Last(nodes').id
       /\ \A i \in DOMAIN nodes' :
             ~nodes'[i].is_depot => nodes'[i].id < id_counter'
      ]_vars

\* a customer was placed, it was removed or cleared, and the next customer
\* placed has the next id
C22_Witness ==
    /\ Len(nodes) = 2
    /\ nodes[2].id = 1
    /\ id_counter = 2
    /\ disk = None

\* C23: Clear Routes leaves the stored routes empty, whether there were
\* routes or not, and changes nothing else: nodes, selection, vehicle count,
\* catalog, vehicle skills and id counter stay, and so do the threads, the
\* queue and the polls.  The state after it is the same from any two states
\* that differ in their routes only, so a second Clear Routes changes
\* nothing.
C23_ClearRoutesIdempotent ==
    [][on_clear_routes =>
          /\ routes' = <<>>
          /\ UNCHANGED <<nodes, selected_node, num_vehicles, available_skills,
                         vehicle_skills, id_counter>>
          /\ UNCHANGED <<widgetVars, solveVars, disk>>
      ]_vars

\* the only customer ever placed, without constraints, was routed (that
\* solve cannot fail), the routes were delivered, and they have been cleared
C23_Witness ==
    /\ solves = 1
    /\ Idle
    /\ Len(nodes) = 2
    /\ id_counter = 1
    /\ ~HasTimeWindows(nodes) /\ ~HasSkills(nodes)
    /\ routes = <<>>

----------------------------------------------------------------------------
(* The coordinate mapper. *)

\* the problem-space points canvas_to_vrp_coords returns for the integer
\* points of the canvas
GridX == {Decimal(k, scale_factor) :
            k \in (0 - canvas_width \div 2)..(canvas_width - canvas_width \div 2)}
GridY == {Decimal(k, scale_factor) :
            k \in (canvas_height \div 2 - canvas_height)..(canvas_height \div 2)}
OnGrid(p) == p[1] \in GridX /\ p[2] \in GridY

\* the centre of the canvas maps to (0, 0)
CentreIsOrigin ==
    (/\ Len(history) >= 2
     /\ history[1] = [space |-> "canvas",
                      point |-> <<float(Centre[1]), float(Centre[2])>>])
    => history[2].point = <<Zero, Zero>>

\* a larger canvas y gives a smaller problem y
AxisInverted ==
    (Len(history) >= 2 /\ history[1].space = "canvas")
    => \A d \in CanvasInputs :
          FloatLess(history[1].point[2], float(d[2]))
          => FloatLess(canvas_to_vrp_coords_binary64(float(d[1]),
                                                     float(d[2]))[2],
                       history[2].point[2])

\* C24, as stated: converting a point to the other space and back gives the
\* point again, for every problem-space point and for every integer canvas
\* point; the centre of the canvas is problem-space (0, 0) and the vertical
\* axis is inverted.
C24_CoordinateRoundTrip ==
    /\ Len(history) >= 3 => history[3].point = history[1].point
    /\ CentreIsOrigin
    /\ AxisInverted

\* C24, amended: the round trip from an integer canvas point gives the point
\* again, and the round trip from a problem-space point gives the point
\* again when the point is the image of an integer canvas point (for
\* another float the result can differ from it in the last bits); the centre
\* of the canvas is problem-space (0, 0) and the vertical axis is inverted.
C24_GridRoundTrip ==
    /\ (Len(history) >= 3 /\ history[1].space = "canvas")
       => history[3].point = history[1].point
    /\ (Len(history) >= 4 /\ history[1].space = "canvas")
       => history[4].point = history[2].point
    /\ (Len(history) >= 3 /\ history[1].space = "vrp"
                          /\ OnGrid(history[1].point))
       => history[3].point = history[1].point
    /\ CentreIsOrigin
    /\ AxisInverted

\* the canvas point (7, 307) went to (-39.3, -0.7) and came back
C24_Witness ==
    /\ Len(history) = 4
    /\ history[1] = [space |-> "canvas", point |-> <<float(7), float(307)>>]
    /\ history[2].point = <<Decimal(-393, 10), Decimal(-7, 10)>>
    /\ history[3].point = history[1].point

----------------------------------------------------------------------------
(* Exceptions and errors. *)

\* the text the except clause of run_vrp_solver reports when the next step of
\* thread workers[i] raises, "" when that step raises nothing: the index
\* manager refuses an empty matrix; NodeToIndex is asked for a node that was
\* placed after the matrix was built (by the loop over the time windows, or,
\* once every node was found servable, by the loop over the required
\* skills); self.nodes[node_idx] is read for a node that is gone
Raised(i) ==
    LET w == workers[i]
        size == Len(w.data.distance_matrix)
        late == {n \in DOMAIN nodes : n > size}
    IN  IF w.pc = "build" /\ nodes = <<>> THEN ManagerError
        ELSE IF /\ w.pc = "constrain"
                /\ \/ /\ w.has_time_windows
                      /\ \E n \in late : nodes[n].time_window # None
                   \/ /\ w.has_skills
                      /\ FirstUnservable(nodes, vehicle_skills,
                                         w.data.num_vehicles) = 0
                      /\ \E n \in late : /\ ~nodes[n].is_depot
                                          /\ nodes[n].required_skills # {}
             THEN NodeIndexError
        ELSE IF /\ w.pc = "extract"
                /\ \E n \in Range(Path(w.solution.routes[w.vehicle_id + 1])) :
                      n + 1 > Len(nodes)
             THEN IndexError
        ELSE ""

\* C25: a step of a thread that raises (during the build, the constraints or
\* the extraction, also when the node list changed under the thread) ends
\* the thread and puts exactly one message, the error message with the
\* exception's text; no other step reports an exception; and a thread never
\* ends without having put a success or error message.
C25_ExceptionsReported ==
    [][/\ \A i \in DOMAIN workers :
            Stepped(i) =>
               IF Raised(i) # ""
               THEN Finishing(i) /\ queue' = Append(queue, Error(Raised(i)))
               ELSE queue' # queue =>
                      Delivered \notin {Error(IndexError), Error(ManagerError),
                                        Error(NodeIndexError)}
       /\ Len(workers') < Len(workers) =>
            \E i \in DOMAIN workers :
                Finishing(i) /\ Delivered.tag \in {"success", "error"}
      ]_vars

\* a customer was placed and given a time window while the thread ran: the
\* thread has ended with the error of NodeToIndex, and only with it
C25_Witness ==
    /\ workers = <<>>
    /\ solves = 1
    /\ Len(nodes) = 3
    /\ queue # <<>>
    /\ Last(queue) = Error(NodeIndexError)
    /\ \A k \in 1..(Len(queue) - 1) : queue[k].tag = "debug"

\* every editing operation can be carried out, and Solve starts a thread
\* and arms a poll whenever there are two nodes (the bounds of the model on
\* the ids and on the solves set aside)
EditingEnabled ==
    /\ \A p \in ClickPoints : ENABLED on_canvas_click(p, id_counter + 1)
    /\ \A p \in ClickPoints : ENABLED on_canvas_right_click(p)
    /\ \A value \in VehicleCounts : ENABLED on_vehicle_count_change(value)
    /\ \A text \in SkillTexts : ENABLED on_add_skill(text)
    /\ \A skill \in Range(available_skills) :
          \A confirmed \in BOOLEAN : ENABLED on_delete_skill(skill, confirmed)
    /\ \A box \in vehicle_boxes : ENABLED on_vehicle_skill_toggle(box[1], box[2])
    /\ \A box \in node_boxes : ENABLED on_node_skill_toggle(box[1])
    /\ \A s, e \in TimeTexts : ENABLED on_set_time_window(s, e)
    /\ ENABLED on_clear_time_window
    /\ ENABLED on_clear_routes
    /\ \A confirmed \in BOOLEAN : ENABLED on_clear_all(confirmed)
    /\ \A chosen \in BOOLEAN : ENABLED on_save_preset(chosen)

SolveEnabled ==
    Len(nodes) >= 2 =>
        ENABLED (/\ on_solve_vrp(solves + 1)
                 /\ Len(workers') = Len(workers) + 1
                 /\ polls' = polls + 1)

\* C26: the poll that consumes an error message changes neither the nodes,
\* the fleet and the skills nor the routes that are shown; and in every
\* state, so after every error whatever its kind (a refused input, a skill
\* no vehicle has, a solve without solution, an exception in the thread, a
\* preset that cannot be loaded), every editing operation and a new solve
\* can be carried out.
C26_ErrorsRecoverable ==
    /\ [][(check_solver_results /\ queue # <<>> /\ Head(queue).tag = "error")
            => UNCHANGED <<scenarioVars, routes, disk>>]_vars
    /\ [](EditingEnabled /\ SolveEnabled)

\* the first solve's routes are shown still, after the second solve ended
\* with an error that was consumed
C26_Witness ==
    /\ solves = 2
    /\ Idle
    /\ routes # <<>>
    /\ Len(nodes) = 1

----------------------------------------------------------------------------
(* The reported cost. *)

\* what vehicle v of thread w travels in the solution: the matrix entries of
\* the arcs of its path, the arc back to the depot included
RealizedCost(w, v) ==
    SumSeq(ArcCosts(w.data.distance_matrix, Path(w.solution.routes[v])))

PairScenario ==
    /\ Len(nodes) = 3
    /\ nodes[1].is_depot /\ nodes[1].x = 0 /\ nodes[1].y = 0
    /\ {<<nodes[2].x, nodes[2].y>>, <<nodes[3].x, nodes[3].y>>}
         = {<<5 * Unit, 0>>, <<(0 - 5) * Unit, 0>>}
    /\ ~HasTimeWindows(nodes)
    /\ ~HasSkills(nodes)
    /\ num_vehicles = 1

PairMatrix == << <<0, 500, 500>>, <<500, 0, 1000>>, <<500, 1000, 0>> >>

\* C28: in that scenario the thread builds the matrix
\* [[0,500,500],[500,0,1000],[500,1000,0]] for one vehicle, and every success
\* message of a thread that built it carries one route, of four stops, from
\* the depot through both customers back to the depot, and the cost 2000.
C28_PairScenario ==
    [][\A i \in DOMAIN workers :
          PairScenario =>
             /\ (Stepped(i) /\ workers[i].pc = "build") =>
                   /\ workers'[i].data.distance_matrix = PairMatrix
                   /\ workers'[i].data.num_vehicles = 1
             /\ (/\ Finishing(i)
                 /\ Delivered.tag = "success"
                 /\ workers[i].data.distance_matrix = PairMatrix
                 /\ workers[i].data.num_vehicles = 1) =>
                   /\ Len(Delivered.routes) = 1
                   /\ LET route == Delivered.routes[1]
                      IN  /\ Len(route) = 4
                          /\ route[1] = nodes[1].id
                          /\ route[4] = nodes[1].id
                          /\ \/ <<route[2], route[3]>> = <<nodes[2].id, nodes[3].id>>
                             \/ <<route[2], route[3]>> = <<nodes[3].id, nodes[2].id>>
                   /\ Delivered.cost = 2000
      ]_vars

\* the solve of the scenario was delivered: the route through both customers
\* is shown
C28_Witness ==
    /\ PairScenario
    /\ Idle
    /\ solves = 1
    /\ routes = << <<nodes[1].id, nodes[2].id, nodes[3].id, nodes[1].id>> >>

(* Skill eligibility. *)

\* C29: skill eligibility.  When the thread leaves its skill section for the
\* solver: with no node declaring required skills no vehicle domain is
\* restricted; otherwise exactly the non-depot nodes with required skills are
\* restricted, each at its position to exactly the vehicles below the vehicle
\* count whose skills include all the node requires, so that no vehicle at or
\* above the count is ever allowed.  When the only vehicles holding what a
\* node requires are stored at or above the count, the thread ends with an
\* error instead.
C29_SkillEligibility ==
    [][\A i \in DOMAIN workers :
          workers[i].pc = "constrain" /\ Stepped(i) =>
              LET count == workers[i].data.num_vehicles
                  held(v) == IF v \in DOMAIN vehicle_skills
                             THEN {vehicle_skills[v][k] : k \in DOMAIN vehicle_skills[v]}
                             ELSE {}
                  eligible(n) == {v \in 0 .. (count - 1) :
                                     nodes[n].required_skills \subseteq held(v)}
                  declaring == {n \in DOMAIN nodes : nodes[n].required_skills # {}}
                  restricted == {n \in declaring : ~nodes[n].is_depot}
              IN  IF \E n \in declaring : eligible(n) = {}
                  THEN Finishing(i) /\ Delivered.tag = "error"
                  ELSE LET domains == workers'[i].allowed
                       IN  /\ workers'[i].pc = "solve"
                           /\ declaring = {} => domains = {}
                           /\ {r[1] : r \in domains} = {n - 1 : n \in restricted}
                           /\ \A n \in restricted : \A r \in domains :
                                 r[1] = n - 1 => r[2] = eligible(n)
                           /\ \A r \in domains : \A v \in r[2] : v < count
      ]_vars

\* C29's case: one vehicle; vehicle 0 holds skill a and so does the entry
\* stored for vehicle 1; the depot and the customer both require a; the
\* thread goes to the solver with the customer alone restricted, to vehicle 0
C29_Witness ==
    \E i \in DOMAIN workers :
        /\ workers[i].pc = "solve"
        /\ workers[i].allowed = {<<1, {0}>>}
        /\ num_vehicles = 1
        /\ 1 \in DOMAIN vehicle_skills
        /\ vehicle_skills[1] # <<>>
        /\ Len(nodes) = 2
        /\ nodes[1].required_skills # {}
        /\ nodes[2].required_skills # {}

(* The time dimension. *)

\* C30: the time dimension.  When the thread has gone through its time-window
\* section, the Time dimension is attached exactly when some node of the
\* list, the depot included, declares a window; the matrix rows are the nodes
\* of the list in order; and a range is set at the row of every node that
\* declares a window, with that node's start and end, and at no other row.
C30_TimeDimension ==
    [][\A i \in DOMAIN workers :
          workers[i].pc = "constrain" /\ Stepped(i) =>
              LET matrix == workers[i].data.distance_matrix
                  declaring == {n \in DOMAIN nodes : nodes[n].time_window # None}
                  calls == workers'[i].ranges
              IN  /\ ~Finishing(i)
                  /\ workers'[i].time_dimension <=> declaring # {}
                  /\ DOMAIN matrix = DOMAIN nodes
                  /\ \A n \in DOMAIN nodes : \A k \in DOMAIN nodes :
                        matrix[n][k] = IF n = k THEN 0 ELSE Distance(nodes[n], nodes[k])
                  /\ \A n \in DOMAIN nodes :
                        {<<r[2], r[3]>> : r \in {q \in calls : q[1] = n - 1}}
                          = IF n \in declaring
                            THEN {<<nodes[n].time_window[1], nodes[n].time_window[2]>>}
                            ELSE {}
                  /\ \A r \in calls : r[1] + 1 \in declaring
      ]_vars

\* C30's case: of the depot and two customers the depot alone declares a
\* window; the thread goes to the solver with the Time dimension and the one
\* range at row 0
C30_Witness ==
    \E i \in DOMAIN workers :
        /\ workers[i].pc = "solve"
        /\ workers[i].time_dimension
        /\ workers[i].ranges = {<<0, 50, 100>>}
        /\ Len(nodes) = 3

(* The search parameters. *)

\* C31: first-attempt search parameters.  For every node list of n nodes, the
\* depot included: the construction strategy is cheapest-arc when n <= 20 and
\* savings when n > 20; guided local search is enabled exactly when some node
\* has a time window, or some node requires a skill, or n > 15; the time
\* limit is 15 with guided local search and 10 without.  Nothing else of the
\* node list matters.
C31_SearchParameters ==
    /\ \A k \in DOMAIN history :
          LET call == history[k]
              n == Len(call.nodes)
              windows == \E j \in DOMAIN call.nodes : call.nodes[j].time_window # None
              skills == \E j \in DOMAIN call.nodes : call.nodes[j].required_skills # {}
              guided == call.search_parameters.local_search_metaheuristic
                            = "GUIDED_LOCAL_SEARCH"
          IN  /\ n <= 20 => call.search_parameters.first_solution_strategy
                                = "PATH_CHEAPEST_ARC"
              /\ n > 20 => call.search_parameters.first_solution_strategy = "SAVINGS"
              /\ guided <=> (windows \/ skills \/ n > 15)
              /\ call.search_parameters.time_limit = IF guided THEN 15 ELSE 10
    /\ \A k \in DOMAIN history : \A j \in DOMAIN history :
          (/\ Len(history[k].nodes) = Len(history[j].nodes)
           /\ history[k].has_time_windows = history[j].has_time_windows
           /\ history[k].has_skills = history[j].has_skills)
              => history[k].search_parameters = history[j].search_parameters

\* C31's cases: twenty nodes without constraints get cheapest-arc with guided
\* local search and 15 seconds; twenty-one get savings
C31_Witness ==
    /\ Len(history) = 2
    /\ Len(history[1].nodes) = 20
    /\ ~history[1].has_time_windows /\ ~history[1].has_skills
    /\ history[1].search_parameters =
          [first_solution_strategy |-> "PATH_CHEAPEST_ARC",
           local_search_metaheuristic |-> "GUIDED_LOCAL_SEARCH",
           time_limit |-> 15]
    /\ Len(history[2].nodes) = 21
    /\ history[2].search_parameters.first_solution_strategy = "SAVINGS"

(* The distance matrix. *)

\* a - b of two floats, not rounded
ExactDifference(a, b) ==
    LET e == IF a.exp < b.exp THEN a.exp ELSE b.exp
        A == ShiftLeft(a.bits, a.exp - e)
        B == ShiftLeft(b.bits, b.exp - e)
    IN  IF a.sign # b.sign THEN [bits |-> BigAdd(A, B), exp |-> e]
        ELSE IF BigLess(A, B) THEN [bits |-> BigSub(B, A), exp |-> e]
        ELSE [bits |-> BigSub(A, B), exp |-> e]

\* the Euclidean distance between nodes a and b, multiplied by 100 and cut to
\* a whole number: floor(sqrt(10000 * (dx^2 + dy^2))) in exact arithmetic on
\* the coordinates the nodes hold
TruncatedDistance(a, b) ==
    LET dx == ExactDifference(a.x, b.x)
        dy == ExactDifference(a.y, b.y)
        e == IF dx.exp < dy.exp THEN 2 * dx.exp ELSE 2 * dy.exp
        sum == BigAdd(ShiftLeft(BigTimes(dx.bits, dx.bits), 2 * dx.exp - e),
                      ShiftLeft(BigTimes(dy.bits, dy.bits), 2 * dy.exp - e))
        scaled == BigMulSmall(sum, DistanceScale * DistanceScale)
        even == IF e % 2 = 0 THEN e ELSE e - 1
        bits == IF e % 2 = 0 THEN scaled ELSE ShiftLeft(scaled, 1)
    IN  IF even >= 0
        THEN Value(BigSqrt(ShiftLeft(bits, even)).root)
        ELSE Value(Whole(BigSqrt(bits).root, even \div 2))

\* C32: prepare_solver_data.  Every call returns a square matrix with one row
\* per node of the list, in list order, zeros on the diagonal, symmetric,
\* every entry the Euclidean distance between the two nodes multiplied by 100
\* and cut to a whole number, never negative; the vehicle count is the
\* current count and the depot index 0; the scenario is left as it was.
C32_DistanceMatrix ==
    [][CallPrepareSolverData =>
          LET data == Last(history')
              matrix == data.distance_matrix
          IN  /\ DOMAIN matrix = DOMAIN nodes
              /\ \A i \in DOMAIN nodes :
                    /\ DOMAIN matrix[i] = DOMAIN nodes
                    /\ matrix[i][i] = 0
                    /\ \A j \in DOMAIN nodes :
                          /\ matrix[i][j] = matrix[j][i]
                          /\ matrix[i][j] >= 0
                          /\ matrix[i][j] = TruncatedDistance(nodes[i], nodes[j])
              /\ data.num_vehicles = num_vehicles
              /\ data.depot = 0
              /\ UNCHANGED <<scenarioVars, routes, solveVars, disk>>
      ]_vars

(* The depot's position. *)

\* C33: the depot is first.  In every state with a non-empty node list the
\* node at position 0 of the list (position 1 here), which is matrix row 0
\* and the depot index given to the routing model, is the depot.
C33_DepotFirst ==
    nodes # <<>> => nodes[1].is_depot

(* Skill references. *)

C35_RoutesNeverDangle ==
    \A r \in DOMAIN routes : \A k \in DOMAIN routes[r] :
        Cardinality({n \in DOMAIN nodes : nodes[n].id = routes[r][k]}) = 1

=============================================================================
